---- MODULE Spec2Model ----
(***************************************************************************)
(* A model of the emmaze maze library: the wall/grid model (Maze), the     *)
(* randomized generator (MazeWorker, MazeConstructor, make_maze), the      *)
(* wall-following solver (MazeSolver, MazePath) and the contour tracer     *)
(* (WallFace, WallTracker, WallFollowerSVGData).                           *)
(*                                                                         *)
(* Positions are pairs <<row, column>>.  A Python dict is a function whose *)
(* DOMAIN is its key set; a Python list indexed from 0 is a function on    *)
(* 0..len-1, except the lists the code only appends to and pops from       *)
(* (paths, worker lists, components), which are sequences.                 *)
(***************************************************************************)
EXTENDS Integers, Sequences, FiniteSets, TLC

VARIABLES
    maze,       \* the Maze object: rows, cols, exits, _ns_walls, _ew_walls
    workers,    \* MazeConstructor.workers: sequence of MazeWorker records
    visited,    \* MazeConstructor.visited: set of Positions
    idx,        \* position of the for loop of MazeConstructor.step (1-based)
    solver,     \* the MazeSolver object, or NoObject
    tracker,    \* the WallTracker and the extraction loop's locals, or NoObject
    args,       \* arguments of the call in flight (constructor calls)
    pc,         \* where the program is
    outcome,    \* how the last call ended: "none", a result or an exception
    calls,      \* history: how often the counted operations have run
    svgdata     \* the wall_components of the WallFollowerSVGData objects built

vars == <<maze, workers, visited, idx, solver, tracker, args, pc, outcome,
          calls, svgdata>>

NoObject == [none |-> TRUE]

\* calls.visit: additions to MazeConstructor.visited (the start cells included);
\* calls.step: MazeSolver.step calls of the run; calls.mark_wall:
\* WallTracker.mark_wall calls of the extraction; calls.add: additions
\* (__add__, __radd__) that built the GraphicalPath at hand; calls.spawn:
\* MazeWorker.spawn calls of the generation
NoCalls == [visit |-> 0, step |-> 0, mark_wall |-> 0, add |-> 0, spawn |-> 0]

(***************************************************************************)
(* Bounds of the model.                                                    *)
(***************************************************************************)
GenMaxCells == 6     \* generation: grids of at most this many cells
SolveMaxCells == 6   \* solving generated mazes: grids of at most this many cells
WallsMaxCells == 4   \* direct wall removal: grids of at most this many cells
WallsMaxOpenBoundary == 1  \* direct wall removal: open boundary walls at most
ContourMaxCells == 4 \* contour extraction: grids of at most this many cells
PathMaxCoord == 2    \* MazePath arguments: rows and columns 0..PathMaxCoord
PathMaxLen == 3      \* MazePath arguments: sequences of at most this length
ConstructMaxDim == 2 \* Maze arguments: rows and cols -1..ConstructMaxDim
ConstructMaxExits == 1  \* Maze arguments: exit lists of at most this length
GenMaxExits == 1     \* generation: exit lists of at most this length
StepCallsMax == 9    \* direct step() calls on one solver: at most this many

(***************************************************************************)
(* Directions, positions.                                                  *)
(***************************************************************************)
DIRECTIONS == <<"north", "west", "south", "east">>
NS_DIRECTIONS == <<"north", "south">>
EW_DIRECTIONS == <<"east", "west">>

DirectionSet == {DIRECTIONS[i] : i \in 1..4}

\* list.index on DIRECTIONS, 0-based as in Python
DirIndex(d) == (CHOOSE i \in 1..4 : DIRECTIONS[i] = d) - 1

Position(row, column) == <<row, column>>

PosAdd(p, q) == Position(p[1] + q[1], p[2] + q[2])

\* Position.neighbor[direction]
neighbor(p, d) ==
    CASE d = "north" -> PosAdd(p, Position(-1, 0))
      [] d = "south" -> PosAdd(p, Position(1, 0))
      [] d = "east"  -> PosAdd(p, Position(0, 1))
      [] d = "west"  -> PosAdd(p, Position(0, -1))

\* A faulty variant: east and west walls of a cell addressed at the same column.
convert_wall_coordinates_sameColumn(p, d) ==
    CASE d = "north" -> <<"EW", p[1], p[2]>>
      [] d = "south" -> <<"EW", p[1] + 1, p[2]>>
      [] d = "east"  -> <<"NS", p[1], p[2]>>
      [] d = "west"  -> <<"NS", p[1], p[2]>>

\* Position.convert_wall_coordinates: <<orientation, row, col>>
convert_wall_coordinates(p, d) ==
    CASE d = "north" -> <<"EW", p[1], p[2]>>
      [] d = "south" -> <<"EW", p[1] + 1, p[2]>>
      [] d = "east"  -> <<"NS", p[1], p[2] + 1>>
      [] d = "west"  -> <<"NS", p[1], p[2]>>

(***************************************************************************)
(* DirectionInfo: a function on the four directions.                       *)
(***************************************************************************)
\* DirectionInfo.from_mapping(mapping, default)
from_mapping(mapping, default) ==
    [d \in DirectionSet |-> IF d \in DOMAIN mapping THEN mapping[d] ELSE default]

\* DirectionInfo.any
DirAny(info) == \E d \in DirectionSet : info[d]

\* DirectionInfo.number
DirNumber(info) == Cardinality({d \in DirectionSet : info[d]})

\* DirectionInfo.with_value(value)
with_value(info, value) == {d \in DirectionSet : info[d] = value}

(***************************************************************************)
(* MazeExit.                                                               *)
(***************************************************************************)
MazeExit(wall, location) == [wall |-> wall, location |-> location]

\* MazeExit.cell_position(maze), from the maze's rows and cols
cell_position(exit, rows, cols) ==
    CASE exit.wall = "north" -> Position(0, exit.location)
      [] exit.wall = "west"  -> Position(exit.location, 0)
      [] exit.wall = "east"  -> Position(exit.location, cols - 1)
      [] exit.wall = "south" -> Position(rows - 1, exit.location)

\* MazeExit.string_output_location(maze)
string_output_location(exit, rows, cols) ==
    CASE exit.wall = "north" -> <<2 * exit.location + 1, 0>>
      [] exit.wall = "west"  -> <<0, 2 * exit.location + 1>>
      [] exit.wall = "east"  -> <<2 * cols, 2 * exit.location + 1>>
      [] exit.wall = "south" -> <<2 * exit.location + 1, 2 * rows>>

(***************************************************************************)
(* WallLine and Maze.                                                      *)
(***************************************************************************)
\* dict[key] = value: the key is added when it is not there
DictSet(dict, key, value) ==
    [k \in (DOMAIN dict) \cup {key} |-> IF k = key THEN value ELSE dict[k]]

\* The wall lines of Maze.__init__ before the exits are opened.  A line's
\* wallstatus has one key more than the line has walls.
FreshMaze(rows, cols, exits) ==
    [rows |-> rows, cols |-> cols, exits |-> exits,
     ns_walls |-> [col \in 0..cols |-> [row \in 0..rows |-> TRUE]],
     ew_walls |-> [row \in 0..rows |-> [col \in 0..cols |-> TRUE]]]

\* The body of the loop over the exits in Maze.__init__
OpenExit(m, exit) ==
    LET cell_pos == cell_position(exit, m.rows, m.cols) IN
    IF exit.wall \in {"north", "south"}
    THEN LET row_offset == IF exit.wall = "north" THEN 0 ELSE 1 IN
         [m EXCEPT !.ew_walls[cell_pos[1] + row_offset] =
                        DictSet(@, cell_pos[2], FALSE)]
    ELSE LET col_offset == IF exit.wall = "west" THEN 0 ELSE 1 IN
         [m EXCEPT !.ns_walls[cell_pos[2] + col_offset] =
                        DictSet(@, cell_pos[1], FALSE)]

\* The list index of OpenExit is out of range (IndexError): the wall-line
\* lists are empty when rows (or cols) is negative.
OpenExitRaises(m, exit) ==
    LET cell_pos == cell_position(exit, m.rows, m.cols) IN
    IF exit.wall \in {"north", "south"}
    THEN LET i == cell_pos[1] + (IF exit.wall = "north" THEN 0 ELSE 1)
             n == Cardinality(DOMAIN m.ew_walls) IN
         ~(-n <= i /\ i < n)
    ELSE LET i == cell_pos[2] + (IF exit.wall = "west" THEN 0 ELSE 1)
             n == Cardinality(DOMAIN m.ns_walls) IN
         ~(-n <= i /\ i < n)

RECURSIVE OpenExits(_, _, _)
OpenExits(m, exits, k) ==
    IF k > Len(exits) THEN m
    ELSE OpenExits(OpenExit(m, exits[k]), exits, k + 1)

\* Maze.__init__ raises (IndexError)
MazeInitRaises(rows, cols, exits) ==
    \E k \in 1..Len(exits) : OpenExitRaises(FreshMaze(rows, cols, exits), exits[k])

\* Maze.__init__
Maze(rows, cols, exits) == OpenExits(FreshMaze(rows, cols, exits), exits, 1)

\* Maze.valid_cell
valid_cell(m, p) ==
    p[1] >= 0 /\ p[1] < m.rows /\ p[2] >= 0 /\ p[2] < m.cols

\* A faulty variant: every flag of the wall line is cleared.
remove_wall_wholeLine(m, orientation, row, col) ==
    IF orientation = "NS"
    THEN [m EXCEPT !.ns_walls[col] = [k \in DOMAIN @ |-> FALSE]]
    ELSE [m EXCEPT !.ew_walls[row] = [k \in DOMAIN @ |-> FALSE]]

\* Maze.remove_wall
remove_wall(m, orientation, row, col) ==
    IF orientation = "NS"
    THEN [m EXCEPT !.ns_walls[col] = DictSet(@, row, FALSE)]
    ELSE [m EXCEPT !.ew_walls[row] = DictSet(@, col, FALSE)]

\* Maze.remove_wall_cell_direction
remove_wall_cell_direction(m, cell, d) ==
    LET info == convert_wall_coordinates(cell, d) IN
    remove_wall(m, info[1], info[2], info[3])

\* Maze.retrieve_wall
retrieve_wall(m, orientation, row, col) ==
    IF orientation = "NS" THEN m.ns_walls[col][row] ELSE m.ew_walls[row][col]

\* The condition of the comprehension in Maze.cell_walls
ValidWallCoordinates(m, info) ==
    /\ info[2] >= 0
    /\ (info[2] < m.rows \/ (info[2] = m.rows /\ info[1] = "EW"))
    /\ info[3] >= 0
    /\ (info[3] < m.cols \/ (info[3] = m.cols /\ info[1] = "NS"))

\* A faulty variant: a side without a wall coordinate is reported walled.
cell_walls_defaultWalled(m, p) ==
    LET valid == {d \in DirectionSet :
                    ValidWallCoordinates(m, convert_wall_coordinates(p, d))}
        mapping == [d \in valid |->
                      LET info == convert_wall_coordinates(p, d) IN
                      retrieve_wall(m, info[1], info[2], info[3])]
    IN from_mapping(mapping, TRUE)

\* Maze.cell_walls
cell_walls(m, p) ==
    LET valid == {d \in DirectionSet :
                    ValidWallCoordinates(m, convert_wall_coordinates(p, d))}
        mapping == [d \in valid |->
                      LET info == convert_wall_coordinates(p, d) IN
                      retrieve_wall(m, info[1], info[2], info[3])]
    IN from_mapping(mapping, FALSE)

\* Maze.num_walls
RECURSIVE SumOver(_, _)
SumOver(f, S) ==
    IF S = {} THEN 0
    ELSE LET x == CHOOSE y \in S : TRUE IN f[x] + SumOver(f, S \ {x})

WallLineNumWalls(line, value) == Cardinality({k \in DOMAIN line : line[k] = value})

num_walls(m) ==
    SumOver([c \in DOMAIN m.ns_walls |-> WallLineNumWalls(m.ns_walls[c], TRUE)],
            DOMAIN m.ns_walls)
    + SumOver([r \in DOMAIN m.ew_walls |-> WallLineNumWalls(m.ew_walls[r], TRUE)],
              DOMAIN m.ew_walls)

\* A faulty variant: the last column and row of the canvas are left out.
solid_exclusiveBounds(m, x, y) ==
    IF (x < 0 \/ x >= 2 * m.cols) \/ (y < 0 \/ y >= 2 * m.rows) THEN FALSE
    ELSE IF x % 2 = 0 /\ y % 2 = 0 THEN TRUE
    ELSE IF x % 2 = 0 THEN retrieve_wall(m, "NS", y \div 2, x \div 2)
    ELSE IF y % 2 = 0 THEN retrieve_wall(m, "EW", y \div 2, x \div 2)
    ELSE FALSE

\* Maze.solid
solid(m, x, y) ==
    IF (x < 0 \/ x > 2 * m.cols) \/ (y < 0 \/ y > 2 * m.rows) THEN FALSE
    ELSE IF x % 2 = 0 /\ y % 2 = 0 THEN TRUE
    ELSE IF x % 2 = 0 THEN retrieve_wall(m, "NS", y \div 2, x \div 2)
    ELSE IF y % 2 = 0 THEN retrieve_wall(m, "EW", y \div 2, x \div 2)
    ELSE FALSE

(***************************************************************************)
(* MazeWorker and MazeConstructor.  A generator state g is the record      *)
(* [maze, workers, visited, raised, visits, spawns]: the constructor, the   *)
(* maze it works on, whether a ValueError("Cannot move that direction.")   *)
(* was raised, and the numbers of additions to visited and of calls of     *)
(* spawn so far.                                                           *)
(***************************************************************************)
\* MazeWorker.__init__
MazeWorker(initial_cell, spawn_probability) ==
    [current_cell |-> initial_cell, spawn_probability |-> spawn_probability,
     path |-> <<initial_cell>>, alive |-> TRUE]

\* A faulty variant: only the cell of the first worker is visited.
MazeConstructor_firstWorkerOnly(m, ws) ==
    [maze |-> m, workers |-> ws,
     visited |-> {ws[1].current_cell}, raised |-> FALSE,
     visits |-> 1, spawns |-> 0]

\* MazeConstructor.__init__ for one worker list
MazeConstructor(m, ws) ==
    [maze |-> m, workers |-> ws,
     visited |-> {ws[i].current_cell : i \in 1..Len(ws)}, raised |-> FALSE,
     visits |-> Len(ws), spawns |-> 0]

\* A faulty variant: neighbours are not checked to be cells of the grid.
unvisited_neighbors_noBounds(m, vis, w) ==
    from_mapping([d \in DirectionSet |-> neighbor(w.current_cell, d) \notin vis],
                 FALSE)

\* MazeWorker.unvisited_neighbors
unvisited_neighbors(m, vis, w) ==
    from_mapping([d \in DirectionSet |->
                    /\ valid_cell(m, neighbor(w.current_cell, d))
                    /\ neighbor(w.current_cell, d) \notin vis],
                 FALSE)

\* A faulty variant: the wall is knocked down before the direction is
\* checked.
move_wallFirst(g, i, d) ==
    LET w == g.workers[i]
        nb == neighbor(w.current_cell, d)
        knocked == remove_wall_cell_direction(g.maze, w.current_cell, d) IN
    IF ~unvisited_neighbors(g.maze, g.visited, w)[d]
    THEN [g EXCEPT !.raised = TRUE, !.maze = knocked]
    ELSE [g EXCEPT !.maze = knocked,
                   !.workers[i].current_cell = nb,
                   !.workers[i].path = Append(@, nb),
                   !.visited = @ \cup {nb},
                   !.visits = @ + 1]

\* MazeWorker.move
move(g, i, d) ==
    LET w == g.workers[i]
        nb == neighbor(w.current_cell, d) IN
    IF ~unvisited_neighbors(g.maze, g.visited, w)[d]
    THEN [g EXCEPT !.raised = TRUE]
    ELSE [g EXCEPT !.maze = remove_wall_cell_direction(@, w.current_cell, d),
                   !.workers[i].current_cell = nb,
                   !.workers[i].path = Append(@, nb),
                   !.visited = @ \cup {nb},
                   !.visits = @ + 1]

\* A faulty variant: the cell of the new worker is not added to visited.
add_worker_notVisited(g, w) == [g EXCEPT !.workers = Append(@, w)]

\* MazeConstructor.add_worker
add_worker(g, w) ==
    [g EXCEPT !.workers = Append(@, w), !.visited = @ \cup {w.current_cell},
              !.visits = @ + 1]

\* A faulty variant: the wall toward the spawned worker is left standing.
spawn_noWall(g, i, d) ==
    LET w == g.workers[i] IN
    IF ~unvisited_neighbors(g.maze, g.visited, w)[d]
    THEN [g EXCEPT !.raised = TRUE, !.spawns = @ + 1]
    ELSE add_worker([g EXCEPT !.spawns = @ + 1],
                    MazeWorker(neighbor(w.current_cell, d), w.spawn_probability))

\* MazeWorker.spawn
spawn(g, i, d) ==
    LET w == g.workers[i] IN
    IF ~unvisited_neighbors(g.maze, g.visited, w)[d]
    THEN [g EXCEPT !.raised = TRUE, !.spawns = @ + 1]
    ELSE add_worker(
            [g EXCEPT !.maze = remove_wall_cell_direction(@, w.current_cell, d),
                      !.spawns = @ + 1],
            MazeWorker(neighbor(w.current_cell, d), w.spawn_probability))

\* A faulty variant: the worker retires at the first dead end.
backtrack_retire(w) == [w EXCEPT !.alive = FALSE]

\* MazeWorker.backtrack
backtrack(w) ==
    LET popped == IF w.path /= <<>> THEN SubSeq(w.path, 1, Len(w.path) - 1)
                  ELSE w.path IN
    IF popped /= <<>>
    THEN [w EXCEPT !.path = popped, !.current_cell = popped[Len(popped)]]
    ELSE [w EXCEPT !.path = popped, !.alive = FALSE]

\* The while loop of MazeWorker.step
RECURSIVE BacktrackLoop(_, _, _)
BacktrackLoop(m, vis, w) ==
    IF w.alive /\ ~DirAny(unvisited_neighbors(m, vis, w))
    THEN BacktrackLoop(m, vis, backtrack(w))
    ELSE w

\* random() yields a float in [0, 1) and spawn_probability is one in [0, 1]:
\* both in hundredths.
RandomDraws == {0, 50, 99}
SpawnProbabilities == {0, 50, 100}

\* A faulty variant: the two places are drawn with replacement.
Sample2_withReplacement(S) == S \X S

\* sample(list, 2): the ordered pairs of distinct elements
Sample2(S) == {pl \in S \X S : pl[1] /= pl[2]}

\* A faulty variant: a worker spawns when random() is at most its spawn
\* probability.
step_drawInclusive(g, i) ==
    LET w0 == g.workers[i] IN
    IF ~w0.alive THEN {g}
    ELSE
    LET w == BacktrackLoop(g.maze, g.visited, w0)
        g1 == [g EXCEPT !.workers[i] = w]
        un == unvisited_neighbors(g.maze, g.visited, w) IN
    IF ~w.alive THEN {g1}
    ELSE
      {LET s == spawn(g1, i, pl[1]) IN
       IF s.raised THEN s ELSE move(s, i, pl[2]) :
         pl \in {q \in Sample2(with_value(un, TRUE)) :
                    \E r \in RandomDraws :
                        r <= w.spawn_probability /\ DirNumber(un) >= 2}}
      \cup
      {move(g1, i, place) :
         place \in {d \in with_value(un, TRUE) :
                    \E r \in RandomDraws :
                        ~(r <= w.spawn_probability /\ DirNumber(un) >= 2)}}

\* MazeWorker.step of worker i, for every outcome of random(), sample() and
\* choice(): the set of generator states it can end in.
step(g, i) ==
    LET w0 == g.workers[i] IN
    IF ~w0.alive THEN {g}
    ELSE
    LET w == BacktrackLoop(g.maze, g.visited, w0)
        g1 == [g EXCEPT !.workers[i] = w]
        un == unvisited_neighbors(g.maze, g.visited, w) IN
    IF ~w.alive THEN {g1}
    ELSE
      {LET s == spawn(g1, i, pl[1]) IN
       IF s.raised THEN s ELSE move(s, i, pl[2]) :
         pl \in {q \in Sample2(with_value(un, TRUE)) :
                    \E r \in RandomDraws :
                        r < w.spawn_probability /\ DirNumber(un) >= 2}}
      \cup
      {move(g1, i, place) :
         place \in {d \in with_value(un, TRUE) :
                    \E r \in RandomDraws :
                        ~(r < w.spawn_probability /\ DirNumber(un) >= 2)}}

\* any(w.alive for w in self.workers)
AnyAlive(ws) == \E i \in 1..Len(ws) : ws[i].alive

(***************************************************************************)
(* MazePath and MazeSolver.                                                *)
(***************************************************************************)
\* Position.neighbor as a DirectionInfo
neighbors(p) == [d \in DirectionSet |-> neighbor(p, d)]

\* A faulty variant: only the first step of the path is validated.
MazePathValid_firstStep(path) ==
    \A k \in 1..(Len(path) - 1) :
        k = 1 => with_value(neighbors(path[k]), path[k + 1]) /= {}

\* The condition of MazePath.__init__: no ValueError("Not a valid path.")
MazePathValid(path) ==
    \A k \in 1..(Len(path) - 1) :
        with_value(neighbors(path[k]), path[k + 1]) /= {}

\* MazeSolver.__init__
MazeSolver(start, goal, initial_orientation) ==
    [start |-> start, goal |-> goal, visited |-> <<start>>, path |-> <<start>>,
     current_position |-> start, completed |-> FALSE, active |-> TRUE,
     orientation |-> initial_orientation]

SeqRange(seq) == {seq[k] : k \in 1..Len(seq)}

\* A faulty variant: the walls of the cell are not looked at.
solver_unvisited_neighbors_noWalls(m, s) ==
    from_mapping(
        [d \in DirectionSet |->
            /\ valid_cell(m, neighbor(s.current_position, d))
            /\ neighbor(s.current_position, d) \notin SeqRange(s.visited)],
        FALSE)

\* MazeSolver.unvisited_neighbors
solver_unvisited_neighbors(m, s) ==
    LET walls == cell_walls(m, s.current_position) IN
    from_mapping(
        [d \in DirectionSet |->
            /\ ~walls[d]
            /\ valid_cell(m, neighbor(s.current_position, d))
            /\ neighbor(s.current_position, d) \notin SeqRange(s.visited)],
        FALSE)

\* A faulty variant: the directions are listed in the order of DIRECTIONS,
\* counterclockwise.
direction_order_counterclockwise(s) ==
    LET start_idx == DirIndex(s.orientation) IN
    [k \in 1..4 |-> DIRECTIONS[((start_idx + (k - 1)) % 4) + 1]]

\* MazeSolver.direction_order
direction_order(s) ==
    LET start_idx == DirIndex(s.orientation) IN
    [k \in 1..4 |-> DIRECTIONS[((start_idx - (k - 1)) % 4) + 1]]

\* MazeSolver.at_destination
at_destination(s) == s.current_position = s.goal

\* A faulty variant: the solver gives up at the first dead end.
solver_backtrack_giveUp(s) ==
    [s EXCEPT !.path = SubSeq(s.path, 1, Len(s.path) - 1), !.active = FALSE]

\* MazeSolver.backtrack
solver_backtrack(s) ==
    LET popped == SubSeq(s.path, 1, Len(s.path) - 1) IN
    IF popped /= <<>>
    THEN [s EXCEPT !.path = popped,
                   !.orientation = direction_order(s)[3],
                   !.current_position = popped[Len(popped)]]
    ELSE [s EXCEPT !.path = popped, !.active = FALSE]

\* A faulty variant: the cell moved to is not recorded as visited.
solver_move_noVisited(m, s, d) ==
    [s EXCEPT !.orientation = d,
              !.current_position = neighbor(s.current_position, d),
              !.path = Append(@, neighbor(s.current_position, d))]

\* MazeSolver.move raises ValueError("Cannot move in that direction.")
solver_move_raises(m, s, d) == ~solver_unvisited_neighbors(m, s)[d]

\* A faulty variant: the cell moved to is not appended to the path.
solver_move_noPath(m, s, d) ==
    [s EXCEPT !.orientation = d,
              !.current_position = neighbor(s.current_position, d),
              !.visited = Append(@, neighbor(s.current_position, d))]

\* MazeSolver.move
solver_move(m, s, d) ==
    LET nb == neighbor(s.current_position, d) IN
    [s EXCEPT !.orientation = d,
              !.current_position = nb,
              !.visited = Append(@, nb),
              !.path = Append(@, nb)]

\* possible_directions of MazeSolver.step
possible_directions(m, s) ==
    LET un == solver_unvisited_neighbors(m, s) IN
    SelectSeq(direction_order(s), LAMBDA d : un[d])

\* A faulty variant: a completed solver goes on searching.
solver_step_ignoresCompleted(m, s) ==
    LET s1 == [s EXCEPT !.completed = at_destination(s)] IN
    IF s1.active
    THEN LET pd == possible_directions(m, s1) IN
         IF pd = <<>> THEN solver_backtrack(s1) ELSE solver_move(m, s1, pd[1])
    ELSE s1

\* MazeSolver.step
solver_step(m, s) ==
    LET s1 == [s EXCEPT !.completed = at_destination(s)] IN
    IF s1.active /\ ~s1.completed
    THEN LET pd == possible_directions(m, s1) IN
         IF pd = <<>> THEN solver_backtrack(s1) ELSE solver_move(m, s1, pd[1])
    ELSE s1

\* MazeSolver.step raises: move refuses the direction step has chosen
solver_step_raises(m, s) ==
    LET s1 == [s EXCEPT !.completed = at_destination(s)] IN
    /\ s1.active /\ ~s1.completed
    /\ LET pd == possible_directions(m, s1) IN
       pd /= <<>> /\ solver_move_raises(m, s1, pd[1])

(***************************************************************************)
(* WallFace and WallTracker.  A wall face is <<cell, direction>>;          *)
(* wall_dict[position][direction] is TRUE where the code holds a WallFace  *)
(* and FALSE where it holds None.                                          *)
(***************************************************************************)
NEXT_DIRECTION == [d \in DirectionSet |-> DIRECTIONS[((DirIndex(d) + 1) % 4) + 1]]

OPPOSITE == [d \in DirectionSet |-> DIRECTIONS[((DirIndex(d) + 2) % 4) + 1]]

\* The keys of WallFace.all_walls, in the order they are inserted
TrackerPositions(m) == (-1..m.rows) \X (-1..m.cols)

\* A faulty variant: only the cells of the grid are collected.
all_walls_gridOnly(m) ==
    [p \in (0..(m.rows - 1)) \X (0..(m.cols - 1)) |->
        from_mapping([d \in with_value(cell_walls(m, p), TRUE) |-> TRUE], FALSE)]

\* WallFace.all_walls, with WallFace.from_cell
all_walls(m) ==
    [p \in TrackerPositions(m) |->
        from_mapping([d \in with_value(cell_walls(m, p), TRUE) |-> TRUE], FALSE)]

\* WallTracker.__init__
WallTracker(m) ==
    LET wd == all_walls(m) IN
    [wall_dict |-> wd, track |-> [p \in DOMAIN wd |-> cell_walls(m, p)]]

\* Row-major order of dict insertion
PosBefore(p, q) == p[1] < q[1] \/ (p[1] = q[1] /\ p[2] < q[2])

\* WallTracker.get_wall, with _get_cell_with_wall and _basic_get_wall:
\* a face, or NoObject for None
get_wall(t) ==
    LET cells == {p \in DOMAIN t.track : DirAny(t.track[p])} IN
    IF cells = {} THEN NoObject
    ELSE LET position == CHOOSE p \in cells : \A q \in cells : q = p \/ PosBefore(p, q)
             k == CHOOSE i \in 1..4 :
                    /\ t.track[position][DIRECTIONS[i]]
                    /\ \A j \in 1..(i - 1) : ~t.track[position][DIRECTIONS[j]]
         IN <<position, DIRECTIONS[k]>>

\* possible_next_walls of WallTracker.next_wall: (b), (c), (d), (e)
possible_next_walls(wall) ==
    LET cell == wall[1]
        direction == wall[2]
        nd == NEXT_DIRECTION[direction] IN
    << <<cell, nd>>,
       <<neighbor(cell, nd), direction>>,
       <<neighbor(neighbor(cell, nd), direction), OPPOSITE[nd]>>,
       <<neighbor(cell, direction), OPPOSITE[direction]>> >>

\* The candidates of next_wall that are faces of the wall_dict
NextWallCandidates(t, wall) ==
    SelectSeq(possible_next_walls(wall),
              LAMBDA c : c[1] \in DOMAIN t.wall_dict /\ t.wall_dict[c[1]][c[2]])

\* WallTracker.next_wall raises ValueError("No next wall found.")
next_wall_raises(t, wall) == NextWallCandidates(t, wall) = <<>>

\* A faulty variant: the wall straight ahead is preferred to the inside corner.
next_wall_straightFirst(t, wall) ==
    LET c == NextWallCandidates(t, wall) IN
    IF Len(c) >= 2 /\ c[1] = possible_next_walls(wall)[1]
                   /\ c[2] = possible_next_walls(wall)[2]
    THEN c[2] ELSE c[1]

\* WallTracker.next_wall
next_wall(t, wall) == NextWallCandidates(t, wall)[1]

\* A faulty variant: the face is not marked off the track.
mark_wall_notMarked(t, wall) == t

\* WallTracker.number_remaining_walls
number_remaining_walls(t) ==
    SumOver([p \in DOMAIN t.track |-> DirNumber(t.track[p])], DOMAIN t.track)

\* WallTracker.mark_wall
mark_wall(t, wall) == [t EXCEPT !.track[wall[1]][wall[2]] = FALSE]

(***************************************************************************)
(* Inputs.                                                                 *)
(***************************************************************************)
\* Grid dimensions with at most n cells
Dimensions(n) == {rc \in (1..n) \X (1..n) : rc[1] * rc[2] <= n}

Cells(rows, cols) == (0..(rows - 1)) \X (0..(cols - 1))

\* The exits whose offset is in range for their side
ValidExits(rows, cols) ==
    {MazeExit(w, l) : w \in {"north", "south"}, l \in 0..(cols - 1)}
    \cup {MazeExit(w, l) : w \in {"east", "west"}, l \in 0..(rows - 1)}

MazeCells(m) == Cells(m.rows, m.cols)

SeqsUpTo(S, n) == UNION {[1..k -> S] : k \in 0..n}

(***************************************************************************)
(* make_maze: the maze and the constructor are built (Init), then          *)
(* MazeConstructor.run_all runs the workers in rounds.                     *)
(***************************************************************************)
\* The generator state of the variables
G == [maze |-> maze, workers |-> workers, visited |-> visited, raised |-> FALSE,
      visits |-> calls.visit, spawns |-> calls.spawn]

MakeMazeInit(rows, cols, exits, mazeworker_start, spawn_probability) ==
    LET mc == MazeConstructor(Maze(rows, cols, exits),
                              <<MazeWorker(mazeworker_start, spawn_probability)>>)
    IN
    /\ maze = mc.maze
    /\ workers = mc.workers
    /\ visited = mc.visited
    /\ idx = 1
    /\ solver = NoObject
    /\ tracker = NoObject
    /\ args = [rows |-> rows, cols |-> cols, exits |-> exits,
               mazeworker_start |-> mazeworker_start,
               spawn_probability |-> spawn_probability]
    /\ pc = "run_all"
    /\ outcome = "none"
    /\ calls = [NoCalls EXCEPT !.visit = mc.visits, !.spawn = mc.spawns]
    /\ svgdata = <<>>

InitGen ==
    \E rc \in Dimensions(GenMaxCells) :
    \E exits \in SeqsUpTo(ValidExits(rc[1], rc[2]), GenMaxExits) :
    \E start \in Cells(rc[1], rc[2]) :
    \E p \in SpawnProbabilities :
        MakeMazeInit(rc[1], rc[2], exits, start, p)

\* One pass of the body of the for loop of MazeConstructor.step
WorkerTurn ==
    /\ pc = "run_all"
    /\ idx <= Len(workers)
    /\ \E g \in step(G, idx) :
        /\ maze' = g.maze
        /\ workers' = g.workers
        /\ visited' = g.visited
        /\ calls' = [calls EXCEPT !.visit = g.visits, !.spawn = g.spawns]
        /\ IF g.raised
           THEN /\ pc' = "raised"
                /\ outcome' = "ValueError: Cannot move that direction."
                /\ idx' = idx
           ELSE /\ idx' = idx + 1
                /\ UNCHANGED <<pc, outcome>>
    /\ UNCHANGED <<solver, tracker, args, svgdata>>

\* The for loop is over: the while condition of run_all is evaluated again
EndOfStep ==
    /\ pc = "run_all"
    /\ idx > Len(workers)
    /\ IF AnyAlive(workers)
       THEN idx' = 1 /\ UNCHANGED <<pc, outcome>>
       ELSE pc' = "generated" /\ outcome' = "Maze" /\ idx' = idx
    /\ UNCHANGED <<maze, workers, visited, solver, tracker, args, calls, svgdata>>

NextGen == WorkerTurn \/ EndOfStep

SpecGen == InitGen /\ [][NextGen]_vars

\* The for loop of MazeConstructor.step goes on to the next worker, or the
\* ValueError leaves it: the steps of WorkerTurn, seen on idx and pc.
\* MazeWorker.step has an outcome in every state (StepHasOutcome), so that
\* WorkerTurn is enabled whenever this is.
TurnTaken ==
    /\ pc = "run_all"
    /\ idx <= Len(workers)
    /\ \/ idx' = idx + 1 /\ pc' = pc
       \/ idx' = idx /\ pc' = "raised"

StepHasOutcome == (pc = "run_all" /\ idx <= Len(workers)) => step(G, idx) /= {}

\* run_all and step are sequential loops: the next worker's turn is taken,
\* and the while condition is evaluated when the for loop is over
SpecGenFair == SpecGen /\ WF_<<idx, pc>>(TurnTaken) /\ WF_vars(EndOfStep)

(***************************************************************************)
(* MazeSolver.run on the maze at hand.                                     *)
(***************************************************************************)
\* MazeSolver(maze, start, goal, initial_orientation) for valid cells
SolverNew ==
    /\ pc \in {"generated", "walls"}
    /\ \E start \in Cells(maze.rows, maze.cols) :
       \E goal \in Cells(maze.rows, maze.cols) :
       \E o \in DirectionSet :
           solver' = MazeSolver(start, goal, o)
    /\ pc' = "run"
    /\ outcome' = "none"
    /\ calls' = [calls EXCEPT !.step = 0]
    /\ UNCHANGED <<maze, workers, visited, idx, tracker, args, svgdata>>

\* One pass of the while loop of MazeSolver.run
SolverRunStep ==
    /\ pc = "run"
    /\ solver.active /\ ~solver.completed
    /\ IF solver_step_raises(maze, solver)
       THEN /\ solver' = [solver EXCEPT !.completed = at_destination(solver)]
            /\ pc' = "raised"
            /\ outcome' = "ValueError: Cannot move in that direction."
       ELSE /\ solver' = solver_step(maze, solver)
            /\ UNCHANGED <<pc, outcome>>
    /\ calls' = [calls EXCEPT !.step = @ + 1]
    /\ UNCHANGED <<maze, workers, visited, idx, tracker, args, svgdata>>

\* The end of MazeSolver.run: a MazePath or a ValueError
SolverRunReturn ==
    /\ pc = "run"
    /\ ~(solver.active /\ ~solver.completed)
    /\ pc' = "returned"
    /\ outcome' = IF solver.completed
                  THEN IF MazePathValid(solver.path) THEN "MazePath"
                       ELSE "ValueError: Not a valid path."
                  ELSE "ValueError: No solution"
    /\ UNCHANGED <<maze, workers, visited, idx, solver, tracker, args, calls, svgdata>>

\* make_maze with its default exits, then MazeSolver.run on the result
InitSolveGen ==
    \E rc \in Dimensions(SolveMaxCells) :
    \E start \in Cells(rc[1], rc[2]) :
    \E p \in SpawnProbabilities :
        MakeMazeInit(rc[1], rc[2], <<MazeExit("north", 0)>>, start, p)

NextSolveGen ==
    WorkerTurn \/ EndOfStep \/ SolverNew \/ SolverRunStep \/ SolverRunReturn

SpecSolveGen == InitSolveGen /\ [][NextSolveGen]_vars

(***************************************************************************)
(* The 3x3 scenario: make_maze(3, 3, [north 1, south 1]) from (0, 0) with  *)
(* spawn probability 0, then the solvers the command line builds, one for  *)
(* each two consecutive exits, from the cell of the first to the cell of   *)
(* the second, with the default orientation.                               *)
(***************************************************************************)
InitScenario33 ==
    MakeMazeInit(3, 3, <<MazeExit("north", 1), MazeExit("south", 1)>>,
                 Position(0, 0), 0)

\* MazeSolver(maze, start.cell_position(maze), end.cell_position(maze))
SolverFromExits ==
    /\ pc = "generated"
    /\ \E k \in 1..(Len(maze.exits) - 1) :
        solver' = MazeSolver(cell_position(maze.exits[k], maze.rows, maze.cols),
                             cell_position(maze.exits[k + 1], maze.rows, maze.cols),
                             "north")
    /\ pc' = "run"
    /\ outcome' = "none"
    /\ calls' = [calls EXCEPT !.step = 0]
    /\ UNCHANGED <<maze, workers, visited, idx, tracker, args, svgdata>>

NextScenario33 ==
    WorkerTurn \/ EndOfStep \/ SolverFromExits \/ SolverRunStep \/ SolverRunReturn

SpecScenario33 == InitScenario33 /\ [][NextScenario33]_vars

(***************************************************************************)
(* A maze built by Maze(rows, cols, exits) and changed by direct calls of  *)
(* remove_wall and remove_wall_cell_direction.                             *)
(***************************************************************************)
\* The real walls between two cells of the grid, as wall-line coordinates
InteriorWalls(m) ==
    {<<"NS", r, c>> : r \in 0..(m.rows - 1), c \in 1..(m.cols - 1)}
    \cup {<<"EW", r, c>> : r \in 1..(m.rows - 1), c \in 0..(m.cols - 1)}

\* The real walls on the outer boundary of the grid
BoundaryWalls(m) ==
    {<<"NS", r, c>> : r \in 0..(m.rows - 1), c \in {0, m.cols}}
    \cup {<<"EW", r, c>> : r \in {0, m.rows}, c \in 0..(m.cols - 1)}

RealWalls(m) == InteriorWalls(m) \cup BoundaryWalls(m)

WallOpen(m, w) == ~retrieve_wall(m, w[1], w[2], w[3])

\* A direct removal is taken while the open boundary walls are below the bound
MayRemove(m, w) ==
    \/ w \in InteriorWalls(m)
    \/ Cardinality({b \in BoundaryWalls(m) : WallOpen(m, b)}) < WallsMaxOpenBoundary

\* The exit lists of the mazes whose walls are removed directly:
\* none, and the default of make_maze
WallsExitLists == {<<>>, <<MazeExit("north", 0)>>}

MazeInit(rows, cols, exits) ==
    /\ maze = Maze(rows, cols, exits)
    /\ workers = <<>>
    /\ visited = {}
    /\ idx = 1
    /\ solver = NoObject
    /\ tracker = NoObject
    /\ args = [rows |-> rows, cols |-> cols, exits |-> exits]
    /\ pc = "walls"
    /\ outcome = "none"
    /\ calls = NoCalls
    /\ svgdata = <<>>

InitWalls ==
    \E rc \in Dimensions(WallsMaxCells) :
    \E exits \in WallsExitLists :
        MazeInit(rc[1], rc[2], exits)

\* maze.remove_wall(orientation, row, col) on a real wall
RemoveWall ==
    /\ pc = "walls"
    /\ \E w \in RealWalls(maze) :
        /\ MayRemove(maze, w)
        /\ maze' = remove_wall(maze, w[1], w[2], w[3])
    /\ UNCHANGED <<workers, visited, idx, solver, tracker, args, pc, outcome,
                   calls, svgdata>>

\* maze.remove_wall_cell_direction(cell_position, direction) on a cell
RemoveWallCellDirection ==
    /\ pc = "walls"
    /\ \E cell \in MazeCells(maze) : \E d \in DirectionSet :
        /\ MayRemove(maze, convert_wall_coordinates(cell, d))
        /\ maze' = remove_wall_cell_direction(maze, cell, d)
    /\ UNCHANGED <<workers, visited, idx, solver, tracker, args, pc, outcome,
                   calls, svgdata>>

\* MazeConstructor([MazeWorker(maze, initial_cell, spawn_probability)])
ConstructorNew ==
    /\ pc = "walls"
    /\ \E start \in MazeCells(maze) : \E p \in SpawnProbabilities :
        LET mc == MazeConstructor(maze, <<MazeWorker(start, p)>>) IN
        /\ workers' = mc.workers
        /\ visited' = mc.visited
        /\ calls' = [calls EXCEPT !.visit = mc.visits, !.spawn = mc.spawns]
    /\ idx' = 1
    /\ pc' = "run_all"
    /\ UNCHANGED <<maze, solver, tracker, args, outcome, svgdata>>

\* Direct removals, then a generator run on the maze
NextMutate ==
    RemoveWall \/ RemoveWallCellDirection \/ ConstructorNew \/ WorkerTurn \/ EndOfStep

SpecMutate == InitWalls /\ [][NextMutate]_vars

\* Direct removals, then MazeSolver.run
NextSolveWalls ==
    RemoveWall \/ RemoveWallCellDirection \/ SolverNew \/ SolverRunStep
    \/ SolverRunReturn

SpecSolveWalls == InitWalls /\ [][NextSolveWalls]_vars

\* Direct removals, a generator run, and MazeSolver.run before or after it
NextAlgorithms ==
    RemoveWall \/ RemoveWallCellDirection \/ ConstructorNew \/ WorkerTurn
    \/ EndOfStep \/ SolverNew \/ SolverRunStep \/ SolverRunReturn

SpecAlgorithms == InitWalls /\ [][NextAlgorithms]_vars

\* The steps of SolverRunStep and SolverRunReturn, seen on calls and pc
RunPassTaken ==
    /\ pc = "run"
    /\ solver.active /\ ~solver.completed
    /\ calls' = [calls EXCEPT !.step = @ + 1]

RunReturned ==
    /\ pc = "run"
    /\ ~(solver.active /\ ~solver.completed)
    /\ pc' = "returned"

\* run() is a sequential loop: a pass that can be made is made, and the
\* return follows the last pass
SpecSolveWallsFair ==
    SpecSolveWalls /\ WF_calls(RunPassTaken) /\ WF_pc(RunReturned)

(***************************************************************************)
(* MazeConstructor(workers) for several workers of one maze, at distinct   *)
(* cells, then run_all.                                                    *)
(***************************************************************************)
MultiMaxCells == 6    \* several workers: grids of at most this many cells
MultiMaxWorkers == 3  \* several workers: at most this many initial workers

\* The sequences of 1..n distinct cells of the grid
DistinctCells(rows, cols, n) ==
    {cells \in SeqsUpTo(Cells(rows, cols), n) :
        /\ cells /= <<>>
        /\ \A j, k \in 1..Len(cells) : cells[j] = cells[k] => j = k}

InitMulti ==
    \E rc \in Dimensions(MultiMaxCells) :
    \E exits \in WallsExitLists :
    \E cells \in DistinctCells(rc[1], rc[2], MultiMaxWorkers) :
    \E p \in SpawnProbabilities :
        LET mc == MazeConstructor(
                      Maze(rc[1], rc[2], exits),
                      [k \in 1..Len(cells) |-> MazeWorker(cells[k], p)]) IN
        /\ maze = mc.maze
        /\ workers = mc.workers
        /\ visited = mc.visited
        /\ idx = 1
        /\ solver = NoObject
        /\ tracker = NoObject
        /\ args = [rows |-> rc[1], cols |-> rc[2], exits |-> exits,
                   initial_cells |-> cells, spawn_probability |-> p]
        /\ pc = "run_all"
        /\ outcome = "none"
        /\ calls = [NoCalls EXCEPT !.visit = mc.visits, !.spawn = mc.spawns]
        /\ svgdata = <<>>

SpecMulti == InitMulti /\ [][NextGen]_vars

(***************************************************************************)
(* MazeSolver.step called directly, whatever the state of the solver: the  *)
(* caller goes on calling step() after the solver has completed or given   *)
(* up.                                                                     *)
(***************************************************************************)
\* solver.step() on a solver in any state
SolverStepCall ==
    /\ pc = "run"
    /\ calls.step < StepCallsMax
    /\ IF solver_step_raises(maze, solver)
       THEN /\ solver' = [solver EXCEPT !.completed = at_destination(solver)]
            /\ pc' = "raised"
            /\ outcome' = "ValueError: Cannot move in that direction."
       ELSE /\ solver' = solver_step(maze, solver)
            /\ UNCHANGED <<pc, outcome>>
    /\ calls' = [calls EXCEPT !.step = @ + 1]
    /\ UNCHANGED <<maze, workers, visited, idx, tracker, args, svgdata>>

\* Direct removals, then a solver stepped by hand
NextSolverSteps ==
    RemoveWall \/ RemoveWallCellDirection \/ SolverNew \/ SolverStepCall

SpecSolverSteps == InitWalls /\ [][NextSolverSteps]_vars

(***************************************************************************)
(* MazeWorker.move, MazeWorker.spawn and MazeSolver.move called directly,  *)
(* in any direction, on the workers of one constructor and on one solver   *)
(* of the same fresh maze.  A ValueError is caught by the caller: outcome  *)
(* holds it, and the objects stay in use.  The calls of spawn are counted  *)
(* for run_all only.                                                       *)
(***************************************************************************)
NavMaxCells == 3   \* direct calls: grids of at most this many cells

\* maze = Maze(rows, cols, exits);
\* MazeConstructor([MazeWorker(maze, initial_cell, spawn_probability)])
InitNavigate ==
    \E rc \in Dimensions(NavMaxCells) :
    \E exits \in WallsExitLists :
    \E start \in Cells(rc[1], rc[2]) :
    \E p \in SpawnProbabilities :
        LET mc == MazeConstructor(Maze(rc[1], rc[2], exits),
                                  <<MazeWorker(start, p)>>) IN
        /\ maze = mc.maze
        /\ workers = mc.workers
        /\ visited = mc.visited
        /\ idx = 1
        /\ solver = NoObject
        /\ tracker = NoObject
        /\ args = [rows |-> rc[1], cols |-> rc[2], exits |-> exits,
                   mazeworker_start |-> start, spawn_probability |-> p]
        /\ pc = "direct"
        /\ outcome = "none"
        /\ calls = [NoCalls EXCEPT !.visit = mc.visits]
        /\ svgdata = <<>>

\* MazeSolver(maze, start, goal, initial_orientation)
SolverForCalls ==
    /\ pc = "direct"
    /\ solver = NoObject
    /\ \E start \in MazeCells(maze) : \E goal \in MazeCells(maze) :
       \E o \in DirectionSet :
           solver' = MazeSolver(start, goal, o)
    /\ outcome' = "none"
    /\ UNCHANGED <<maze, workers, visited, idx, tracker, args, pc, calls,
                   svgdata>>

\* workers[i].move(d)
WorkerMoveCall ==
    /\ pc = "direct"
    /\ \E i \in 1..Len(workers) : \E d \in DirectionSet :
        LET g == move(G, i, d) IN
        /\ maze' = g.maze
        /\ workers' = g.workers
        /\ visited' = g.visited
        /\ calls' = [calls EXCEPT !.visit = g.visits]
        /\ outcome' = IF g.raised
                      THEN "ValueError: Cannot move that direction."
                      ELSE "none"
    /\ UNCHANGED <<idx, solver, tracker, args, pc, svgdata>>

\* workers[i].spawn(d)
WorkerSpawnCall ==
    /\ pc = "direct"
    /\ \E i \in 1..Len(workers) : \E d \in DirectionSet :
        LET g == spawn(G, i, d) IN
        /\ maze' = g.maze
        /\ workers' = g.workers
        /\ visited' = g.visited
        /\ calls' = [calls EXCEPT !.visit = g.visits]
        /\ outcome' = IF g.raised
                      THEN "ValueError: Cannot move that direction."
                      ELSE "none"
    /\ UNCHANGED <<idx, solver, tracker, args, pc, svgdata>>

\* solver.move(d)
SolverMoveCall ==
    /\ pc = "direct"
    /\ solver /= NoObject
    /\ \E d \in DirectionSet :
        /\ IF solver_move_raises(maze, solver, d)
           THEN /\ solver' = solver
                /\ outcome' = "ValueError: Cannot move in that direction."
           ELSE /\ solver' = solver_move(maze, solver, d)
                /\ outcome' = "none"
    /\ UNCHANGED <<maze, workers, visited, idx, tracker, args, pc, calls,
                   svgdata>>

\* The solver is built, and the direct calls are made
NextNavigate ==
    SolverForCalls \/ WorkerMoveCall \/ WorkerSpawnCall \/ SolverMoveCall

SpecNavigate == InitNavigate /\ [][NextNavigate]_vars

(***************************************************************************)
(* The extraction loop of WallFollowerSVGData.__init__.  The variable      *)
(* tracker holds the WallTracker (wall_dict, track, and maze: the walls it *)
(* was built from) and the loop's locals wall_components,                  *)
(* current_component and w.  WallFollowerSVGData(maze, ...) may be built   *)
(* again on the same maze once an extraction has ended.                    *)
(***************************************************************************)
MaxExtractions == 2

\* A faulty variant: a tracker that exists is used again, its track as the
\* extraction before left it.
TrackerNew_trackKept ==
    /\ pc \in {"walls", "generated", "extracted"}
    /\ Len(svgdata) < MaxExtractions
    /\ tracker' = [wall_dict |-> WallTracker(maze).wall_dict,
                   track |-> IF tracker = NoObject THEN WallTracker(maze).track
                             ELSE tracker.track,
                   maze |-> maze,
                   wall_components |-> <<>>,
                   current_component |-> <<>>,
                   w |-> NoObject]
    /\ pc' = "outer"
    /\ outcome' = "none"
    /\ calls' = [calls EXCEPT !.mark_wall = 0]
    /\ UNCHANGED <<maze, workers, visited, idx, solver, args, svgdata>>

\* tracker = WallTracker(maze); wall_components = []
TrackerNew ==
    /\ pc \in {"walls", "generated", "extracted"}
    /\ Len(svgdata) < MaxExtractions
    /\ tracker' = [wall_dict |-> WallTracker(maze).wall_dict,
                   track |-> WallTracker(maze).track,
                   maze |-> maze,
                   wall_components |-> <<>>,
                   current_component |-> <<>>,
                   w |-> NoObject]
    /\ pc' = "outer"
    /\ outcome' = "none"
    /\ calls' = [calls EXCEPT !.mark_wall = 0]
    /\ UNCHANGED <<maze, workers, visited, idx, solver, args, svgdata>>

\* while (w := tracker.get_wall()) is not None: the component is started,
\* or the loop is left and wall_components is kept
OuterLoop ==
    /\ pc = "outer"
    /\ LET got == get_wall(tracker) IN
       IF got = NoObject
       THEN /\ pc' = "extracted"
            /\ outcome' = "WallFollowerSVGData"
            /\ tracker' = [tracker EXCEPT !.w = got]
            /\ svgdata' = Append(svgdata,
                                 [maze |-> tracker.maze,
                                  wall_components |-> tracker.wall_components])
            /\ calls' = calls
       ELSE /\ pc' = "inner"
            /\ outcome' = outcome
            /\ tracker' = [mark_wall(tracker, got) EXCEPT
                              !.w = got, !.current_component = <<got>>]
            /\ calls' = [calls EXCEPT !.mark_wall = @ + 1]
            /\ svgdata' = svgdata
    /\ UNCHANGED <<maze, workers, visited, idx, solver, args>>

\* while (w := tracker.next_wall(w)) not in current_component: the face is
\* appended and marked, or the component is closed
InnerLoop ==
    /\ pc = "inner"
    /\ IF next_wall_raises(tracker, tracker.w)
       THEN /\ pc' = "raised"
            /\ outcome' = "ValueError: No next wall found."
            /\ tracker' = tracker
            /\ calls' = calls
       ELSE LET nw == next_wall(tracker, tracker.w) IN
            IF nw \notin SeqRange(tracker.current_component)
            THEN /\ tracker' = [mark_wall(tracker, nw) EXCEPT
                                   !.w = nw,
                                   !.current_component = Append(@, nw)]
                 /\ calls' = [calls EXCEPT !.mark_wall = @ + 1]
                 /\ UNCHANGED <<pc, outcome>>
            ELSE /\ tracker' = [tracker EXCEPT
                                   !.w = nw,
                                   !.wall_components =
                                       Append(@, tracker.current_component)]
                 /\ calls' = calls
                 /\ pc' = "outer"
                 /\ outcome' = outcome
    /\ UNCHANGED <<maze, workers, visited, idx, solver, args, svgdata>>

InitContour ==
    \E rc \in Dimensions(ContourMaxCells) :
    \E exits \in WallsExitLists :
        MazeInit(rc[1], rc[2], exits)

\* Direct removals, then the contour extraction
NextContour ==
    RemoveWall \/ RemoveWallCellDirection \/ TrackerNew \/ OuterLoop \/ InnerLoop

SpecContour == InitContour /\ [][NextContour]_vars

\* The steps of OuterLoop and InnerLoop, seen on pc and calls
OuterPassTaken ==
    /\ pc = "outer"
    /\ pc' \in {"inner", "extracted"}

InnerPassTaken ==
    /\ pc = "inner"
    /\ \/ calls' = [calls EXCEPT !.mark_wall = @ + 1] /\ pc' = pc
       \/ calls' = calls /\ pc' \in {"outer", "raised"}

\* The two while loops are sequential code: the next pass is made
SpecContourFair ==
    SpecContour /\ WF_pc(OuterPassTaken) /\ WF_<<pc, calls>>(InnerPassTaken)

\* A generation, then the contour extraction
NextGenContour ==
    WorkerTurn \/ EndOfStep \/ TrackerNew \/ OuterLoop \/ InnerLoop

\* make_maze(rows, cols, exits) for a maze without exits or with one exit
InitGenContour ==
    \E rc \in Dimensions(GenMaxCells) :
    \E exits \in {<<>>} \cup {<<e>> : e \in ValidExits(rc[1], rc[2])} :
    \E start \in Cells(rc[1], rc[2]) :
    \E p \in SpawnProbabilities :
        MakeMazeInit(rc[1], rc[2], exits, start, p)

SpecGenContour == InitGenContour /\ [][NextGenContour]_vars

(***************************************************************************)
(* MazePath(path) for any sequence of positions.                           *)
(***************************************************************************)
InitPath ==
    /\ \E path \in SeqsUpTo((0..PathMaxCoord) \X (0..PathMaxCoord), PathMaxLen) :
        args = [path |-> path]
    /\ maze = NoObject
    /\ workers = <<>>
    /\ visited = {}
    /\ idx = 1
    /\ solver = NoObject
    /\ tracker = NoObject
    /\ pc = "MazePath"
    /\ outcome = "none"
    /\ calls = NoCalls
    /\ svgdata = <<>>

\* MazePath.__init__
MazePathNew ==
    /\ pc = "MazePath"
    /\ pc' = "returned"
    /\ outcome' = IF MazePathValid(args.path) THEN "MazePath"
                  ELSE "ValueError: Not a valid path."
    /\ UNCHANGED <<maze, workers, visited, idx, solver, tracker, args, calls, svgdata>>

NextPath == MazePathNew

SpecPath == InitPath /\ [][NextPath]_vars

(***************************************************************************)
(* Maze(rows, cols, exits) and make_maze(rows, cols, exits) for any        *)
(* integers rows and cols and any exit offsets, in range or not.           *)
(***************************************************************************)
ConstructDims == (-1)..ConstructMaxDim

AnyExits ==
    {MazeExit(w, l) : w \in DirectionSet, l \in (-1)..(ConstructMaxDim + 1)}

InitConstruct ==
    /\ \E rows \in ConstructDims : \E cols \in ConstructDims :
       \E exits \in SeqsUpTo(AnyExits, ConstructMaxExits) :
           args = [rows |-> rows, cols |-> cols, exits |-> exits]
    /\ maze = NoObject
    /\ workers = <<>>
    /\ visited = {}
    /\ idx = 1
    /\ solver = NoObject
    /\ tracker = NoObject
    /\ pc = "Maze"
    /\ outcome = "none"
    /\ calls = NoCalls
    /\ svgdata = <<>>

\* maze = Maze(rows, cols, exits)
MazeNew ==
    /\ pc = "Maze"
    /\ IF MazeInitRaises(args.rows, args.cols, args.exits)
       THEN maze' = NoObject /\ outcome' = "IndexError"
       ELSE maze' = Maze(args.rows, args.cols, args.exits) /\ outcome' = "Maze"
    /\ pc' = "constructed"
    /\ UNCHANGED <<workers, visited, idx, solver, tracker, args, calls, svgdata>>

\* The rest of make_maze before run_all, with mazeworker_start at its default
MakeMazeWorker ==
    /\ pc = "constructed"
    /\ outcome = "Maze"
    /\ \E p \in SpawnProbabilities :
        LET mc == MazeConstructor(maze, <<MazeWorker(Position(0, 0), p)>>) IN
        /\ workers' = mc.workers
        /\ visited' = mc.visited
        /\ calls' = [calls EXCEPT !.visit = mc.visits, !.spawn = mc.spawns]
    /\ idx' = 1
    /\ pc' = "run_all"
    /\ outcome' = "none"
    /\ UNCHANGED <<maze, solver, tracker, args, svgdata>>

NextConstruct == MazeNew \/ MakeMazeWorker \/ WorkerTurn \/ EndOfStep

SpecConstruct == InitConstruct /\ [][NextConstruct]_vars

(***************************************************************************)
(* The queries of a Maze, cell_walls(position), solid(x, y) and num_walls,  *)
(* on a maze with any valid exits whose walls are removed directly.  The   *)
(* arguments go up to QueryMargin beyond the grid and the text canvas.     *)
(***************************************************************************)
QueryMargin == 2
QueryMaxCells == 4
QueryMaxExits == 1

InitQuery ==
    \E rc \in Dimensions(QueryMaxCells) :
    \E exits \in SeqsUpTo(ValidExits(rc[1], rc[2]), QueryMaxExits) :
        MazeInit(rc[1], rc[2], exits)

\* outcome = maze.cell_walls(position)
CellWallsCall ==
    /\ pc = "walls"
    /\ \E position \in ((-QueryMargin)..(maze.rows - 1 + QueryMargin))
                        \X ((-QueryMargin)..(maze.cols - 1 + QueryMargin)) :
        /\ args' = [position |-> position]
        /\ outcome' = cell_walls(maze, position)
    /\ pc' = "cell_walls"
    /\ UNCHANGED <<maze, workers, visited, idx, solver, tracker, calls, svgdata>>

\* outcome = maze.solid(x, y)
SolidCall ==
    /\ pc = "walls"
    /\ \E x \in (-QueryMargin)..(2 * maze.cols + QueryMargin) :
       \E y \in (-QueryMargin)..(2 * maze.rows + QueryMargin) :
        /\ args' = [x |-> x, y |-> y]
        /\ outcome' = solid(maze, x, y)
    /\ pc' = "solid"
    /\ UNCHANGED <<maze, workers, visited, idx, solver, tracker, calls, svgdata>>

\* outcome = maze.num_walls
NumWallsCall ==
    /\ pc = "walls"
    /\ args' = [property |-> "num_walls"]
    /\ outcome' = num_walls(maze)
    /\ pc' = "num_walls"
    /\ UNCHANGED <<maze, workers, visited, idx, solver, tracker, calls, svgdata>>

NextQuery ==
    RemoveWall \/ RemoveWallCellDirection \/ CellWallsCall \/ SolidCall
    \/ NumWallsCall

SpecQuery == InitQuery /\ [][NextQuery]_vars

(***************************************************************************)
(* GraphicalCoordinates, OrientedLineSegment and GraphicalPath.  The       *)
(* coordinates and the tolerance are integers; a GraphicalPath is the      *)
(* record [coords, tolerance] of its _coords and tolerance.                *)
(***************************************************************************)
GraphMaxCoord == 2   \* graphical coordinates: x and y in 0..GraphMaxCoord
GraphMaxLen == 4     \* graphical paths: points given to one call at most
GraphMaxAdds == 1    \* graphical paths: additions after the construction

GraphicalCoordinates(x, y) == [x |-> x, y |-> y]

\* GraphicalCoordinates.__sub__
CoordSub(a, b) == GraphicalCoordinates(a.x - b.x, a.y - b.y)

\* GraphicalCoordinates.length_squared
length_squared(c) == c.x * c.x + c.y * c.y

OrientedLineSegment(start, end) == [start |-> start, end |-> end]

\* seq[:-1]
AllButLast(seq) == SubSeq(seq, 1, Len(seq) - 1)

\* The for loop of GraphicalPath.__init__ (check is true), from coords[k] on
RECURSIVE CheckedCoords(_, _, _, _)
CheckedCoords(coords, k, coord_list, tol_sq) ==
    IF k > Len(coords) THEN coord_list
    ELSE CheckedCoords(
            coords, k + 1,
            IF length_squared(CoordSub(coords[k], coord_list[Len(coord_list)]))
                 > tol_sq
            THEN Append(coord_list, coords[k]) ELSE coord_list,
            tol_sq)

\* GraphicalPath.__init__ raises ValueError("Argument must be non-empty.")
GraphicalPathRaises(coords) == coords = <<>>

\* GraphicalPath.__init__ for a non-empty sequence of GraphicalCoordinates
GraphicalPath(coords, tolerance, check) ==
    LET tol_sq == tolerance * tolerance IN
    [tolerance |-> tolerance,
     coords |->
        IF check
        THEN LET coord_list == CheckedCoords(coords, 2, <<coords[1]>>, tol_sq) IN
             IF length_squared(CoordSub(coord_list[Len(coord_list)], coord_list[1]))
                  < tol_sq
             THEN AllButLast(coord_list) ELSE coord_list
        ELSE IF length_squared(CoordSub(coords[Len(coords)], coords[1])) > tol_sq
             THEN coords ELSE AllButLast(coords)]

\* The coord_list of GraphicalPath.from_OLS_seq
RECURSIVE OLSCoords(_, _)
OLSCoords(seq, k) ==
    IF k > Len(seq) THEN <<>>
    ELSE <<seq[k].start, seq[k].end>> \o OLSCoords(seq, k + 1)

\* GraphicalPath.from_OLS_seq, for a non-empty seq
from_OLS_seq(seq, tolerance) == GraphicalPath(OLSCoords(seq, 1), tolerance, TRUE)

\* self._coords[-1] or self._coords[0] raises IndexError: the tuple is empty
CoordsIndexRaises(path) == path.coords = <<>>

\* max() of numbers, False counting as 0
Max(S) == CHOOSE m \in S : \A n \in S : n <= m

\* GraphicalPath.__add__, other an OrientedLineSegment
add_segment(self, other) ==
    IF length_squared(CoordSub(self.coords[Len(self.coords)], other.start))
         < self.tolerance * self.tolerance
    THEN GraphicalPath(Append(self.coords, other.end), self.tolerance, FALSE)
    ELSE GraphicalPath(self.coords \o <<other.start, other.end>>,
                       self.tolerance, FALSE)

\* GraphicalPath.__add__, other a GraphicalPath: the False is an argument of
\* max() and the check of the new path stays at its default
add_path(self, other) ==
    IF length_squared(CoordSub(self.coords[Len(self.coords)], other.coords[1]))
         < Max({self.tolerance * self.tolerance, other.tolerance * other.tolerance})
    THEN GraphicalPath(AllButLast(self.coords) \o other.coords,
                       Max({self.tolerance, other.tolerance, 0}), TRUE)
    ELSE GraphicalPath(self.coords \o other.coords,
                       Max({self.tolerance, other.tolerance}), TRUE)

\* GraphicalPath.__add__, other a GraphicalCoordinates
add_point(self, other) ==
    GraphicalPath(Append(self.coords, other), self.tolerance, TRUE)

\* GraphicalPath.__radd__, other an OrientedLineSegment
radd_segment(self, other) ==
    IF length_squared(CoordSub(self.coords[1], other.end))
         < self.tolerance * self.tolerance
    THEN GraphicalPath(<<other.start>> \o self.coords, self.tolerance, TRUE)
    ELSE GraphicalPath(<<other.start, other.end>> \o self.coords,
                       self.tolerance, TRUE)

\* GraphicalPath.__radd__, other a GraphicalCoordinates
radd_point(self, other) ==
    GraphicalPath(<<other>> \o self.coords, self.tolerance, TRUE)

\* The arguments: points, segments, tolerances, and the paths of at most n
\* points (each is built by GraphicalPath(coords + (coords[0],), t, False))
GraphPoints ==
    {GraphicalCoordinates(x, y) : x \in 0..GraphMaxCoord, y \in 0..GraphMaxCoord}

GraphSegments == {OrientedLineSegment(a, b) : a \in GraphPoints, b \in GraphPoints}

GraphTolerances == {1, 2}

GraphPaths(n) ==
    {[tolerance |-> t, coords |-> c] :
        t \in GraphTolerances, c \in SeqsUpTo(GraphPoints, n)}

InitGraphical ==
    /\ maze = NoObject
    /\ workers = <<>>
    /\ visited = {}
    /\ idx = 1
    /\ solver = NoObject
    /\ tracker = NoObject
    /\ args = NoObject
    /\ pc = "svg"
    /\ outcome = "none"
    /\ calls = NoCalls
    /\ svgdata = <<>>

\* The call has returned the GraphicalPath result, or raised
PathCall(callargs, raises, exception, result) ==
    /\ args' = callargs
    /\ IF raises
       THEN pc' = "raised" /\ outcome' = exception
       ELSE pc' = "path" /\ outcome' = result
    /\ calls' = IF "self" \in DOMAIN callargs THEN [calls EXCEPT !.add = @ + 1]
                ELSE calls
    /\ UNCHANGED <<maze, workers, visited, idx, solver, tracker, svgdata>>

\* An addition may be made to the path at hand: n points more are given
MayAdd(n) ==
    /\ pc = "path"
    /\ calls.add < GraphMaxAdds
    /\ Len(outcome.coords) + n <= GraphMaxLen

\* outcome = GraphicalPath(coords, tolerance, check)
GraphicalPathNew ==
    /\ pc = "svg"
    /\ \E coords \in SeqsUpTo(GraphPoints, GraphMaxLen) :
       \E tolerance \in GraphTolerances : \E check \in BOOLEAN :
        PathCall([call |-> "GraphicalPath", coords |-> coords,
                  tolerance |-> tolerance, check |-> check],
                 GraphicalPathRaises(coords),
                 "ValueError: Argument must be non-empty.",
                 GraphicalPath(coords, tolerance, check))

\* outcome = GraphicalPath.from_OLS_seq(seq, tolerance)
FromOLSSeq ==
    /\ pc = "svg"
    /\ \E seq \in SeqsUpTo(GraphSegments, GraphMaxLen \div 2) :
       \E tolerance \in GraphTolerances :
        PathCall([call |-> "from_OLS_seq", seq |-> seq, tolerance |-> tolerance],
                 GraphicalPathRaises(OLSCoords(seq, 1)),
                 "ValueError: Argument must be non-empty.",
                 from_OLS_seq(seq, tolerance))

\* outcome = outcome + other, other an OrientedLineSegment
PathAddSegment ==
    /\ MayAdd(2)
    /\ \E other \in GraphSegments :
        PathCall([call |-> "path + segment", self |-> outcome, other |-> other],
                 CoordsIndexRaises(outcome), "IndexError",
                 add_segment(outcome, other))

\* outcome = outcome + other, other a GraphicalPath
PathAddPath ==
    /\ MayAdd(GraphMaxLen \div 2)
    /\ \E other \in GraphPaths(GraphMaxLen \div 2) :
        PathCall([call |-> "path + path", self |-> outcome, other |-> other],
                 CoordsIndexRaises(outcome) \/ CoordsIndexRaises(other),
                 "IndexError", add_path(outcome, other))

\* outcome = outcome + other, other a GraphicalCoordinates
PathAddPoint ==
    /\ MayAdd(1)
    /\ \E other \in GraphPoints :
        PathCall([call |-> "path + point", self |-> outcome, other |-> other],
                 FALSE, "none", add_point(outcome, other))

\* outcome = other + outcome, other an OrientedLineSegment
SegmentAddPath ==
    /\ MayAdd(2)
    /\ \E other \in GraphSegments :
        PathCall([call |-> "segment + path", self |-> outcome, other |-> other],
                 CoordsIndexRaises(outcome), "IndexError",
                 radd_segment(outcome, other))

\* outcome = other + outcome, other a GraphicalCoordinates
PointAddPath ==
    /\ MayAdd(1)
    /\ \E other \in GraphPoints :
        PathCall([call |-> "point + path", self |-> outcome, other |-> other],
                 FALSE, "none", radd_point(outcome, other))

NextGraphical ==
    GraphicalPathNew \/ FromOLSSeq \/ PathAddSegment \/ PathAddPath
    \/ PathAddPoint \/ SegmentAddPath \/ PointAddPath

SpecGraphical == InitGraphical /\ [][NextGraphical]_vars

(***************************************************************************)
(* The drawing of a maze: SVGInfo, the wall coordinates of a face, the     *)
(* GraphicalPath of each component, its signed area, and walls_SVG.        *)
(* Graphical lengths are counted in hundredths, so that the default        *)
(* tolerance 0.01 of from_OLS_seq is 1 and a length given to the program   *)
(* as the integer n is n * GraphUnit.  Areas are in squares of that unit.  *)
(***************************************************************************)
GraphUnit == 100

DrawMaxCells == 4    \* drawing: grids of at most this many cells
DrawMaxCellSize == 4 \* drawing: cells 3..DrawMaxCellSize wide and high
DrawMaxOffset == 1   \* drawing: offsets 0..DrawMaxOffset

\* GraphicalCoordinates.__add__
CoordAdd(a, b) == GraphicalCoordinates(a.x + b.x, a.y + b.y)

\* GraphicalCoordinates.__rmul__ for a Position: position * coordinates
rmul_position(c, position) ==
    GraphicalCoordinates(c.x * position[2], c.y * position[1])

\* SVGInfo.__init__, for widths and heights that divide exactly
SVGInfo(width, height, rows, cols, offset) ==
    [width |-> width, height |-> height, offset |-> offset,
     rows |-> rows, cols |-> cols,
     cell_dimension |->
        GraphicalCoordinates((width - 2 * offset.x) \div cols,
                             (height - 2 * offset.y) \div rows)]

\* SVGInfo.cell_coordinates
cell_coordinates(info, position) ==
    CoordAdd(info.offset, rmul_position(info.cell_dimension, position))

\* CORNER_POS[(ns, ew)]
CORNER_POS(corner) ==
    Position(IF corner[1] = "north" THEN 0 ELSE 1,
             IF corner[2] = "east" THEN 1 ELSE 0)

\* THICKNESS_OFFSET_POS[(ns, ew)]
THICKNESS_OFFSET_POS(corner) ==
    LET cp == CORNER_POS(corner) IN Position(1 - 2 * cp[1], 1 - 2 * cp[2])

\* WALL_CORNERS[direction]
WALL_CORNERS(direction) ==
    IF direction \in {NS_DIRECTIONS[1], NS_DIRECTIONS[2]}
    THEN << <<direction, OPPOSITE[NEXT_DIRECTION[direction]]>>,
            <<direction, NEXT_DIRECTION[direction]>> >>
    ELSE << <<OPPOSITE[NEXT_DIRECTION[direction]], direction>>,
            <<NEXT_DIRECTION[direction], direction>> >>

\* A faulty variant: the faces are drawn from their second corner to
\* their first.
wall_coordinates_from_position_reversed(info, wall_thickness, position, direction) ==
    LET top_left == cell_coordinates(info, position)
        corners == WALL_CORNERS(direction)
        gc == GraphicalCoordinates(wall_thickness, wall_thickness)
        at(corner) ==
            CoordAdd(CoordAdd(top_left,
                              rmul_position(info.cell_dimension, CORNER_POS(corner))),
                     rmul_position(gc, THICKNESS_OFFSET_POS(corner))) IN
    OrientedLineSegment(at(corners[2]), at(corners[1]))

\* WallFollowerSVGData.wall_coordinates_from_position, from the svg_info and
\* the wall_thickness of the object
wall_coordinates_from_position(info, wall_thickness, position, direction) ==
    LET top_left == cell_coordinates(info, position)
        corners == WALL_CORNERS(direction)
        gc == GraphicalCoordinates(wall_thickness, wall_thickness)
        at(corner) ==
            CoordAdd(CoordAdd(top_left,
                              rmul_position(info.cell_dimension, CORNER_POS(corner))),
                     rmul_position(gc, THICKNESS_OFFSET_POS(corner))) IN
    OrientedLineSegment(at(corners[1]), at(corners[2]))

\* WallFollowerSVGData.wall_coordinates
wall_coordinates(info, wall_thickness, wall) ==
    wall_coordinates_from_position(info, wall_thickness, wall[1], wall[2])

\* WallFollowerSVGData.graphical_path_components
graphical_path_components(info, wall_thickness, wall_components) ==
    [k \in 1..Len(wall_components) |->
        from_OLS_seq([j \in 1..Len(wall_components[k]) |->
                         wall_coordinates(info, wall_thickness,
                                          wall_components[k][j])],
                     1)]

\* GraphicalPath.polygon_signed_area raises IndexError: no point is left
polygon_signed_area_raises(path) == CoordsIndexRaises(path)

\* GraphicalPath.polygon_signed_area (the sum is even for lengths that are
\* multiples of GraphUnit, and the half is exact)
polygon_signed_area(path) ==
    LET c == path.coords
        n == Len(c) IN
    (SumOver([k \in 1..(n - 1) |-> c[k].y * c[k + 1].x - c[k].x * c[k + 1].y],
             1..(n - 1))
     + c[n].y * c[1].x - c[n].x * c[1].y) \div 2

\* svg_elts of walls_SVG: the signed area and the polygon of each component,
\* filled with the cell colour or the wall colour
svg_elts(paths) ==
    [k \in 1..Len(paths) |->
        LET psa == polygon_signed_area(paths[k]) IN
        [psa |-> psa,
         fill |-> IF psa >= 0 THEN "cell_color" ELSE "wall_color",
         points |-> paths[k].coords]]

\* sorted(svg_elts) raises TypeError: two areas are equal and the elements
\* themselves, which have no order, are compared
sorted_raises(elts) ==
    \E j, k \in 1..Len(elts) : j /= k /\ elts[j].psa = elts[k].psa

\* sorted(svg_elts), by increasing signed area
sorted(elts) == SortSeq(elts, LAMBDA a, b : a.psa < b.psa)

\* WallFollowerSVGData.walls_SVG: the polygons of the group, in their order
walls_SVG(paths) == sorted(svg_elts(paths))

\* The arguments of WallFollowerSVGData: width, height, offset (the same in
\* x and y) and an absolute wall_thickness, 0 < 2 * wall_thickness < cell size
DrawArguments(rows, cols) ==
    UNION {{[width |-> (cols * c[1] + 2 * o) * GraphUnit,
             height |-> (rows * c[2] + 2 * o) * GraphUnit,
             offset |-> GraphicalCoordinates(o * GraphUnit, o * GraphUnit),
             wall_thickness |-> t * GraphUnit] :
               o \in 0..DrawMaxOffset,
               t \in {x \in 1..DrawMaxCellSize : 2 * x < c[1] /\ 2 * x < c[2]}} :
           c \in (3..DrawMaxCellSize) \X (3..DrawMaxCellSize)}

\* make_maze(rows, cols, exits), then WallFollowerSVGData(maze, width, height,
\* offset, wall_thickness, "absolute")
InitDraw ==
    \E rc \in Dimensions(DrawMaxCells) :
    \E exits \in SeqsUpTo(ValidExits(rc[1], rc[2]), GenMaxExits) :
    \E start \in Cells(rc[1], rc[2]) :
    \E p \in SpawnProbabilities :
    \E d \in DrawArguments(rc[1], rc[2]) :
        LET mc == MazeConstructor(Maze(rc[1], rc[2], exits),
                                  <<MazeWorker(start, p)>>) IN
        /\ maze = mc.maze
        /\ workers = mc.workers
        /\ visited = mc.visited
        /\ idx = 1
        /\ solver = NoObject
        /\ tracker = NoObject
        /\ args = [rows |-> rc[1], cols |-> rc[2], exits |-> exits,
                   mazeworker_start |-> start, spawn_probability |-> p,
                   width |-> d.width, height |-> d.height,
                   offset |-> d.offset, wall_thickness |-> d.wall_thickness]
        /\ pc = "run_all"
        /\ outcome = "none"
        /\ calls = [NoCalls EXCEPT !.visit = mc.visits, !.spawn = mc.spawns]
        /\ svgdata = <<>>

\* The paths of the components of the extraction that has just ended
DrawnPaths ==
    LET data == svgdata[Len(svgdata)] IN
    graphical_path_components(
        SVGInfo(args.width, args.height, data.maze.rows, data.maze.cols,
                args.offset),
        args.wall_thickness, data.wall_components)

\* data.walls_SVG on the object whose extraction has ended
WallsSVG ==
    /\ pc = "extracted"
    /\ \E paths \in {DrawnPaths} :
       IF \E k \in 1..Len(paths) : polygon_signed_area_raises(paths[k])
       THEN pc' = "raised" /\ outcome' = "IndexError"
       ELSE \E elts \in {svg_elts(paths)} :
            IF sorted_raises(elts)
            THEN pc' = "raised" /\ outcome' = "TypeError"
            ELSE pc' = "walls_SVG" /\ outcome' = sorted(elts)
    /\ UNCHANGED <<maze, workers, visited, idx, solver, tracker, args, calls,
                   svgdata>>

\* A generation, the contour extraction, and the drawing
NextDraw ==
    WorkerTurn \/ EndOfStep \/ TrackerNew \/ OuterLoop \/ InnerLoop \/ WallsSVG

SpecDraw == InitDraw /\ [][NextDraw]_vars

(***************************************************************************)
(* JSON export and import.  The JSON text is the value json.dumps is       *)
(* given and json.loads gives back: a record of integers, strings and      *)
(* lists, with the key "exits" only when the maze has exits.               *)
(***************************************************************************)
\* Maze.wall_data: all the wall lines of the maze, each with its
\* orientation, its position and its wallstatus
wall_data(m) ==
    {[orientation |-> "NS", position |-> k, wallstatus |-> m.ns_walls[k]] :
        k \in DOMAIN m.ns_walls}
    \cup {[orientation |-> "EW", position |-> k, wallstatus |-> m.ew_walls[k]] :
            k \in DOMAIN m.ew_walls}

RECURSIVE Pow2(_)
Pow2(n) == IF n <= 0 THEN 1 ELSE 2 * Pow2(n - 1)

\* _WallLine_to_int
WallLine_to_int(wall_line) ==
    LET keys == DOMAIN wall_line.wallstatus
        max_loc == Max(keys) IN
    SumOver([key \in keys |->
                IF wall_line.wallstatus[key] THEN Pow2(max_loc - key) ELSE 0],
            keys)

\* _maze_to_dict
maze_to_dict(m) ==
    LET wall_lines == wall_data(m)
        walls == [orientation \in {"NS", "EW"} |->
                    [k \in {wl.position : wl \in
                              {x \in wall_lines : x.orientation = orientation}} |->
                        CHOOSE wl \in wall_lines :
                            wl.orientation = orientation /\ wl.position = k]]
        row_walls == [k \in 1..(m.rows + 1) |-> WallLine_to_int(walls["EW"][k - 1])]
        col_walls == [k \in 1..(m.cols + 1) |-> WallLine_to_int(walls["NS"][k - 1])]
    IN
    IF m.exits /= <<>>
    THEN [rows |-> m.rows, cols |-> m.cols,
          row_walls |-> row_walls, col_walls |-> col_walls,
          exits |-> [k \in 1..Len(m.exits) |->
                        <<m.exits[k].wall, m.exits[k].location>>]]
    ELSE [rows |-> m.rows, cols |-> m.cols,
          row_walls |-> row_walls, col_walls |-> col_walls]

\* maze_to_json(maze), without solutions
maze_to_json(m) == [maze |-> maze_to_dict(m)]

\* _int_to_wallstatus
int_to_wallstatus(value, length) ==
    [k \in 0..(length - 1) |-> ((value \div Pow2(length - k - 1)) % 2) = 1]

\* The loop over j, val of json_to_maze: the walls of one line are removed
RECURSIVE RemoveLine(_, _, _, _, _)
RemoveLine(m, key, i, wallstatus, j) ==
    IF j \notin DOMAIN wallstatus THEN m
    ELSE RemoveLine(
            IF ~wallstatus[j]
            THEN IF key = "row_walls"
                 THEN remove_wall(m, "EW", i, j)
                 ELSE remove_wall(m, "NS", j, i)
            ELSE m,
            key, i, wallstatus, j + 1)

\* The loop over idx, value of json_to_maze, for one key; the length of a
\* line is mazedata[key[:3] + "s"] + 1
RECURSIVE RemoveLines(_, _, _, _)
RemoveLines(m, mazedata, key, i) ==
    LET values == IF key = "row_walls" THEN mazedata.row_walls
                  ELSE mazedata.col_walls
        length == (IF key = "row_walls" THEN mazedata.rows ELSE mazedata.cols) + 1
    IN
    IF i >= Len(values) THEN m
    ELSE RemoveLines(
            RemoveLine(m, key, i,
                       int_to_wallstatus(values[i + 1], length), 0),
            mazedata, key, i + 1)

\* json_to_maze: the maze of the pair it returns (a text without solutions)
json_to_maze(json_text) ==
    LET mazedata == json_text.maze
        items == IF "exits" \in DOMAIN mazedata THEN mazedata.exits ELSE <<>>
        exits == [k \in 1..Len(items) |-> MazeExit(items[k][1], items[k][2])]
        m0 == Maze(mazedata.rows, mazedata.cols, exits)
        m1 == RemoveLines(m0, mazedata, "row_walls", 0)
    IN RemoveLines(m1, mazedata, "col_walls", 0)

\* text = maze_to_json(maze)
MazeToJson ==
    /\ pc = "walls"
    /\ pc' = "json"
    /\ outcome' = maze_to_json(maze)
    /\ UNCHANGED <<maze, workers, visited, idx, solver, tracker, args, calls,
                   svgdata>>

\* json_to_maze(text)[0]
JsonToMaze ==
    /\ pc = "json"
    /\ pc' = "imported"
    /\ args' = [json_text |-> outcome]
    /\ outcome' = json_to_maze(outcome)
    /\ UNCHANGED <<maze, workers, visited, idx, solver, tracker, calls, svgdata>>

\* Direct removals, then the export and the import of the result
NextJson ==
    RemoveWall \/ RemoveWallCellDirection \/ MazeToJson \/ JsonToMaze

SpecJson == InitWalls /\ [][NextJson]_vars

(***************************************************************************)
(* The graph of a maze: cells joined by open walls.                        *)
(***************************************************************************)
\* The pairs <<A, B>> of grid cells, B next to A, with A's wall toward B open
OpenEdges(m) ==
    UNION {LET walls == cell_walls(m, a) IN
           {<<a, neighbor(a, d)>> :
              d \in {x \in DirectionSet : ~walls[x] /\ valid_cell(m, neighbor(a, x))}} :
           a \in MazeCells(m)}

\* The cells reached from the set S along the edges E
RECURSIVE ReachFrom(_, _)
ReachFrom(S, E) ==
    LET T == S \cup {e[2] : e \in {f \in E : f[1] \in S /\ f[2] \notin S}} IN
    IF T = S THEN S ELSE ReachFrom(T, E)

Connected(V, E) == \A v \in V : ReachFrom({v}, E) = V

\* No edge lies on a cycle: without it (in both directions) its ends are apart
Acyclic(E) ==
    \A e \in E :
        e[2] \notin ReachFrom({e[1]}, E \ {e, <<e[2], e[1]>>})

CarvedWalls(m) == {w \in InteriorWalls(m) : WallOpen(m, w)}

(***************************************************************************)
(* C1: once run_all has returned, the cells of the grid joined by open     *)
(* walls form a tree: every cell is connected to every other cell and no   *)
(* open wall lies on a cycle, so exactly one simple path joins two cells.  *)
(***************************************************************************)
C1_SpanningTree ==
    pc = "generated" =>
        LET E == OpenEdges(maze) IN
        Connected(MazeCells(maze), E) /\ Acyclic(E)

\* A maze of six cells carved by more than one worker
C1_Witness ==
    /\ pc = "generated"
    /\ maze.rows * maze.cols = 6
    /\ Len(workers) >= 2
    /\ Connected(MazeCells(maze), OpenEdges(maze))

(***************************************************************************)
(* C2: once run_all has returned, the number of open walls between two     *)
(* cells of the grid is rows * cols - 1.                                   *)
(***************************************************************************)
C2_CarvedCount ==
    pc = "generated" =>
        Cardinality(CarvedWalls(maze)) = maze.rows * maze.cols - 1

\* A maze with an exit, whose open walls are one more than the carved ones
C2_Witness ==
    /\ pc = "generated"
    /\ maze.rows >= 2 /\ maze.cols >= 2
    /\ maze.exits /= <<>>
    /\ Cardinality({w \in RealWalls(maze) : WallOpen(maze, w)})
         = maze.rows * maze.cols

(***************************************************************************)
(* C3: wall symmetry.  In every state reached by construction, direct      *)
(* removals and generator turns, for grid cells A and B with B the         *)
(* neighbour of A in direction d, cell_walls(A)[d] = cell_walls(B)[the     *)
(* opposite of d].                                                         *)
(***************************************************************************)
C3_WallSymmetry ==
    \A A \in MazeCells(maze) : \A d \in DirectionSet :
        LET B == neighbor(A, d) IN
        valid_cell(maze, B) =>
            cell_walls(maze, A)[d] = cell_walls(maze, B)[OPPOSITE[d]]

\* A generator has carved a wall of a maze that also holds a directly
\* removed interior wall, and some interior wall still stands
C3_Witness ==
    /\ pc = "run_all"
    /\ Cardinality(visited) >= 2
    /\ Cardinality(CarvedWalls(maze)) > Cardinality(visited) - 1
    /\ \E A \in MazeCells(maze) : \E d \in {"east", "south"} :
        /\ valid_cell(maze, neighbor(A, d))
        /\ cell_walls(maze, A)[d]
        /\ cell_walls(maze, neighbor(A, d))[OPPOSITE[d]]

(***************************************************************************)
(* C4: on a generated maze, for all cells start and goal, run() returns a  *)
(* MazePath from start to goal that is a simple path through open walls,   *)
(* of the length of the shortest such path.                                *)
(***************************************************************************)
\* The number of steps of a shortest path from a to b along E (b reachable)
RECURSIVE Distance(_, _, _, _)
Distance(S, b, E, n) ==
    IF b \in S THEN n
    ELSE Distance(S \cup {e[2] : e \in {f \in E : f[1] \in S /\ f[2] \notin S}},
                  b, E, n + 1)

NoRepeats(seq) == \A i, j \in 1..Len(seq) : i /= j => seq[i] /= seq[j]

C4_SolverCorrect ==
    pc = "returned" =>
        LET path == solver.path
            E == OpenEdges(maze) IN
        /\ outcome = "MazePath"
        /\ path[1] = solver.start
        /\ path[Len(path)] = solver.goal
        /\ NoRepeats(path)
        /\ \A k \in 1..(Len(path) - 1) : <<path[k], path[k + 1]>> \in E
        /\ Len(path) = Distance({solver.start}, solver.goal, E, 0) + 1

\* A path of four cells or more found after backtracking out of a dead end
C4_Witness ==
    /\ pc = "returned"
    /\ outcome = "MazePath"
    /\ Len(solver.path) >= 4
    /\ Len(solver.visited) > Len(solver.path)

(***************************************************************************)
(* C5: for any walls and any cells start and goal, run() returns a path    *)
(* if and only if goal is reached from start through open walls inside    *)
(* the grid; otherwise the solver is inactive and run() raises             *)
(* ValueError("No solution").                                              *)
(***************************************************************************)
C5_PathIffReachable ==
    pc = "returned" =>
        LET reachable ==
                solver.goal \in ReachFrom({solver.start}, OpenEdges(maze)) IN
        /\ (outcome = "MazePath") <=> reachable
        /\ ~reachable => (outcome = "ValueError: No solution" /\ ~solver.active
                          /\ ~solver.completed)

\* No solution, found after exploring and backtracking, in a maze with an
\* open boundary wall
C5_Witness ==
    /\ pc = "returned"
    /\ outcome = "ValueError: No solution"
    /\ Len(solver.visited) >= 3
    /\ \E b \in BoundaryWalls(maze) : WallOpen(maze, b)

(***************************************************************************)
(* C6: contour round trip.  When the extraction loop has ended, the faces  *)
(* of all components are exactly the faces of the present walls of the     *)
(* maze, both sides of each, and no face is held twice.                    *)
(***************************************************************************)
\* The two faces of a real wall: the cells on its two sides
FacesOfWall(w) ==
    IF w[1] = "NS"
    THEN {<<Position(w[2], w[3] - 1), "east">>, <<Position(w[2], w[3]), "west">>}
    ELSE {<<Position(w[2] - 1, w[3]), "south">>, <<Position(w[2], w[3]), "north">>}

PresentFaces(m) ==
    UNION {FacesOfWall(w) : w \in {x \in RealWalls(m) : ~WallOpen(m, x)}}

RECURSIVE Concat(_, _)
Concat(seqs, k) ==
    IF k > Len(seqs) THEN <<>> ELSE seqs[k] \o Concat(seqs, k + 1)

C6_ContourRoundTrip ==
    pc = "extracted" =>
        LET faces == Concat(tracker.wall_components, 1) IN
        /\ SeqRange(faces) = PresentFaces(maze)
        /\ NoRepeats(faces)

\* An extraction of several components from a maze with an open interior
\* wall and an open boundary wall
C6_Witness ==
    /\ pc = "extracted"
    /\ Len(tracker.wall_components) >= 2
    /\ CarvedWalls(maze) /= {}
    /\ \E b \in BoundaryWalls(maze) : WallOpen(maze, b)
    /\ maze.rows >= 2 /\ maze.cols >= 2

(***************************************************************************)
(* C8: boundary invariant.  After construction with exits in range and in  *)
(* every state of the generation from a valid start, a boundary wall is    *)
(* open if and only if it is at a declared exit; seen from the cells, the  *)
(* side of a cell with no neighbour is open exactly when an exit names it. *)
(***************************************************************************)
\* The boundary wall at (side, offset)
ExitWall(m, exit) ==
    CASE exit.wall = "north" -> <<"EW", 0, exit.location>>
      [] exit.wall = "south" -> <<"EW", m.rows, exit.location>>
      [] exit.wall = "west"  -> <<"NS", exit.location, 0>>
      [] exit.wall = "east"  -> <<"NS", exit.location, m.cols>>

C8_BoundaryInvariant ==
    /\ \A b \in BoundaryWalls(maze) :
        WallOpen(maze, b) <=>
            \E k \in 1..Len(maze.exits) : ExitWall(maze, maze.exits[k]) = b
    /\ \A cell \in MazeCells(maze) : \A d \in DirectionSet :
        ~valid_cell(maze, neighbor(cell, d)) =>
            (~cell_walls(maze, cell)[d] <=>
                \E k \in 1..Len(maze.exits) :
                    /\ cell_position(maze.exits[k], maze.rows, maze.cols) = cell
                    /\ maze.exits[k].wall = d)

\* A generated maze of two rows and columns or more with a south or east exit
C8_Witness ==
    /\ pc = "generated"
    /\ maze.rows >= 2 /\ maze.cols >= 2
    /\ \E k \in 1..Len(maze.exits) :
        /\ maze.exits[k].wall \in {"south", "east"}
        /\ WallOpen(maze, ExitWall(maze, maze.exits[k]))

(***************************************************************************)
(* C7: MazePath(path) succeeds when each two consecutive positions differ  *)
(* by one unit in exactly one axis, and raises ValueError otherwise.       *)
(***************************************************************************)
Abs(x) == IF x < 0 THEN -x ELSE x

UnitStep(a, b) ==
    \/ (Abs(a[1] - b[1]) = 1 /\ a[2] = b[2])
    \/ (a[1] = b[1] /\ Abs(a[2] - b[2]) = 1)

C7_MazePathValidation ==
    pc = "returned" =>
        IF \A k \in 1..(Len(args.path) - 1) : UnitStep(args.path[k], args.path[k + 1])
        THEN outcome = "MazePath"
        ELSE outcome = "ValueError: Not a valid path."

\* A sequence refused for a diagonal step after a valid first step
C7_Witness ==
    /\ pc = "returned"
    /\ outcome = "ValueError: Not a valid path."
    /\ Len(args.path) = 3
    /\ UnitStep(args.path[1], args.path[2])
    /\ Abs(args.path[2][1] - args.path[3][1]) = 1
    /\ Abs(args.path[2][2] - args.path[3][2]) = 1

(***************************************************************************)
(* C9: constructing a Maze of positive dimensions with an exit whose       *)
(* offset is outside [0, rows) for an east or west exit, or outside        *)
(* [0, cols) for a north or south exit, fails: no maze is produced.        *)
(***************************************************************************)
ExitInRange(exit, rows, cols) ==
    IF exit.wall \in {"east", "west"}
    THEN 0 <= exit.location /\ exit.location < rows
    ELSE 0 <= exit.location /\ exit.location < cols

C9_OutOfRangeExitFails ==
    (/\ pc = "constructed"
     /\ args.rows >= 1 /\ args.cols >= 1
     /\ \E k \in 1..Len(args.exits) :
            ~ExitInRange(args.exits[k], args.rows, args.cols))
    => (outcome /= "Maze" /\ maze = NoObject)

(***************************************************************************)
(* C10: constructing a Maze, or calling make_maze, with rows <= 0 or       *)
(* cols <= 0 fails instead of producing a maze.                            *)
(***************************************************************************)
C10_NonPositiveDimensionsFail ==
    (/\ pc \in {"constructed", "generated"}
     /\ (args.rows <= 0 \/ args.cols <= 0))
    => (outcome /= "Maze" /\ maze = NoObject)

(***************************************************************************)
(* C11: for every position, in the grid or not, cell_walls(position)       *)
(* reports a direction whose wall coordinate is not a wall of the maze as  *)
(* not walled (False), and every other direction by its stored flag.  As   *)
(* first stated, with "walled" (True) for the directions without a wall,   *)
(* the property is C11_OutOfRangeSidesWalled.                              *)
(***************************************************************************)
C11_OutOfRangeSidesNotWalled ==
    pc = "cell_walls" =>
        \A d \in DirectionSet :
            LET info == convert_wall_coordinates(args.position, d) IN
            IF info \in RealWalls(maze)
            THEN outcome[d] = ~WallOpen(maze, info)
            ELSE outcome[d] = FALSE

C11_OutOfRangeSidesWalled ==
    pc = "cell_walls" =>
        \A d \in DirectionSet :
            convert_wall_coordinates(args.position, d) \notin RealWalls(maze)
                => outcome[d] = TRUE

\* A position beside the grid: one side is a standing boundary wall, the
\* other three have no wall coordinate
C11_Witness ==
    /\ pc = "cell_walls"
    /\ ~valid_cell(maze, args.position)
    /\ \E d \in DirectionSet :
        /\ convert_wall_coordinates(args.position, d) \in BoundaryWalls(maze)
        /\ outcome[d]
        /\ \A e \in DirectionSet \ {d} :
            /\ convert_wall_coordinates(args.position, e) \notin RealWalls(maze)
            /\ ~outcome[e]

(***************************************************************************)
(* C12: MazeSolver.run() terminates for every wall configuration, start    *)
(* and goal, and makes at most 2 * rows * cols calls of step().            *)
(***************************************************************************)
C12_SolverTerminates ==
    /\ [](pc \in {"run", "returned"} => calls.step <= 2 * maze.rows * maze.cols)
    /\ (pc = "run") ~> (pc = "returned")

\* A run that ended after 2 * rows * cols - 2 calls of step()
C12_Witness ==
    /\ pc = "returned"
    /\ maze.rows * maze.cols >= 4
    /\ calls.step = 2 * maze.rows * maze.cols - 2

(***************************************************************************)
(* C13: run_all terminates for every sequence of random choices and every  *)
(* spawn probability.  When it has returned no worker is alive and every   *)
(* cell of the grid is visited; the additions to the visited set, the      *)
(* start cell included, number rows * cols then and never more.            *)
(***************************************************************************)
C13_GenerationTerminates ==
    /\ [](calls.visit <= maze.rows * maze.cols)
    /\ [](pc = "generated" =>
            /\ ~AnyAlive(workers)
            /\ visited = MazeCells(maze)
            /\ calls.visit = maze.rows * maze.cols)
    /\ (pc = "run_all") ~> (pc = "generated")

\* The end of a generation on six cells in which three workers took part
C13_Witness ==
    /\ pc = "generated"
    /\ maze.rows * maze.cols = 6
    /\ Len(workers) >= 3
    /\ calls.visit = 6

(***************************************************************************)
(* C14: the contour extraction terminates on every maze.  When the outer   *)
(* loop has ended no face remains on the track, and the calls of mark_wall *)
(* (the faces appended to components) never exceed the number of faces of  *)
(* the present walls of the maze.                                          *)
(***************************************************************************)
C14_ExtractionTerminates ==
    /\ [](pc \in {"outer", "inner", "extracted"} =>
            calls.mark_wall <= Cardinality(PresentFaces(maze)))
    /\ [](pc = "extracted" => number_remaining_walls(tracker) = 0)
    /\ (pc = "outer") ~> (pc = "extracted")

\* The end of an extraction of three components or more that marked every
\* face of a maze of four cells
C14_Witness ==
    /\ pc = "extracted"
    /\ maze.rows * maze.cols = 4
    /\ Len(tracker.wall_components) >= 3
    /\ calls.mark_wall = Cardinality(PresentFaces(maze))

(***************************************************************************)
(* The 1x2 scenario: Maze(1, 2, []) and the same maze after the wall       *)
(* between its two cells is removed.                                       *)
(***************************************************************************)
Scenario12 == Maze(1, 2, <<>>)

Scenario12Opened == remove_wall_cell_direction(Scenario12, <<0, 0>>, "east")

InScenario12 == args.rows = 1 /\ args.cols = 2 /\ args.exits = <<>>

\* The two grid corners a wall joins
WallEnds(w) ==
    IF w[1] = "NS" THEN {<<w[2], w[3]>>, <<w[2] + 1, w[3]>>}
    ELSE {<<w[2], w[3]>>, <<w[2], w[3] + 1>>}

\* The walls of W hang together through shared corners
WallsConnected(W) ==
    Connected(W, {e \in W \X W : e[1] /= e[2] /\ WallEnds(e[1]) \cap WallEnds(e[2]) /= {}})

(***************************************************************************)
(* C15: the 1x2 maze without exits has 5 wall lines with every flag set;   *)
(* once the wall between (0,0) and (0,1) is removed the standing walls are *)
(* the boundary walls, all of them, and they hang together as one          *)
(* component.                                                              *)
(***************************************************************************)
C15_Scenario12Walls ==
    (pc = "walls" /\ InScenario12) =>
        /\ maze = Scenario12 =>
            /\ Cardinality(DOMAIN maze.ns_walls) + Cardinality(DOMAIN maze.ew_walls) = 5
            /\ \A c \in DOMAIN maze.ns_walls : \A r \in DOMAIN maze.ns_walls[c] :
                    maze.ns_walls[c][r]
            /\ \A r \in DOMAIN maze.ew_walls : \A c \in DOMAIN maze.ew_walls[r] :
                    maze.ew_walls[r][c]
        /\ maze = Scenario12Opened =>
            LET standing == {w \in RealWalls(maze) : ~WallOpen(maze, w)} IN
            /\ standing = BoundaryWalls(maze)
            /\ Cardinality(standing) = 6
            /\ WallsConnected(standing)
            /\ ~cell_walls(maze, <<0, 0>>)["east"]
            /\ ~cell_walls(maze, <<0, 1>>)["west"]

\* The 1x2 maze after the removal of its interior wall
C15_Witness ==
    /\ pc = "walls"
    /\ InScenario12
    /\ maze = Scenario12Opened
    /\ maze /= Scenario12
    /\ WallOpen(maze, <<"NS", 0, 1>>)

(***************************************************************************)
(* C16: in the 1x2 maze without exits whose interior wall is removed,      *)
(* MazeSolver from (0,0) to (0,1) returns the path [(0,0), (0,1)],         *)
(* whatever the initial orientation.                                       *)
(***************************************************************************)
C16_Scenario12Solver ==
    (/\ pc = "returned"
     /\ InScenario12
     /\ maze = Scenario12Opened
     /\ solver.start = <<0, 0>>
     /\ solver.goal = <<0, 1>>)
    => (outcome = "MazePath" /\ solver.path = << <<0, 0>>, <<0, 1>> >>)

\* The solver has returned from (0,0) to (0,1) in the opened 1x2 maze
C16_Witness ==
    /\ pc = "returned"
    /\ InScenario12
    /\ maze = Scenario12Opened
    /\ solver.start = <<0, 0>>
    /\ solver.goal = <<0, 1>>
    /\ calls.step = 2

(***************************************************************************)
(* C17: the 3x3 maze with a north exit and a south exit at offset 1,       *)
(* generated from (0,0) with spawn probability 0: whatever the random      *)
(* choices, the open walls between cells are 8 and form a tree, and        *)
(* MazeSolver from (0,1) to (2,1) returns a path, never "No solution".     *)
(***************************************************************************)
C17_Scenario33 ==
    /\ pc \in {"generated", "run", "returned"} =>
        /\ Cardinality(CarvedWalls(maze)) = 8
        /\ Connected(MazeCells(maze), OpenEdges(maze))
        /\ Len(workers) = 1
    /\ pc \in {"run", "returned"} =>
        (solver.start = <<0, 1>> /\ solver.goal = <<2, 1>>)
    /\ pc = "returned" =>
        /\ outcome = "MazePath"
        /\ solver.path[1] = <<0, 1>>
        /\ solver.path[Len(solver.path)] = <<2, 1>>

\* A path found after backtracking, in a maze whose generator backtracked
C17_Witness ==
    /\ pc = "returned"
    /\ maze.rows = 3 /\ maze.cols = 3
    /\ outcome = "MazePath"
    /\ Len(solver.visited) > Len(solver.path)
    /\ Cardinality(CarvedWalls(maze)) = 8
    /\ \E cell \in MazeCells(maze) :
        Cardinality({e \in OpenEdges(maze) : e[1] = cell}) >= 3

(***************************************************************************)
(* C18: a second extraction on the same maze yields the components of the  *)
(* first, as closed loops of faces whatever face each begins with and      *)
(* whatever their order in the list; the walls of the maze are the same    *)
(* during and after an extraction as when it began.                        *)
(***************************************************************************)
\* The sequences that list a closed loop beginning at each of its faces
Rotations(seq) ==
    {SubSeq(seq, k, Len(seq)) \o SubSeq(seq, 1, k - 1) : k \in 1..Len(seq)}

LoopSet(components) == {Rotations(components[k]) : k \in 1..Len(components)}

FlagCleared(m, m2, w) ==
    /\ m2.rows = m.rows /\ m2.cols = m.cols /\ m2.exits = m.exits
    /\ DOMAIN m2.ns_walls = DOMAIN m.ns_walls
    /\ DOMAIN m2.ew_walls = DOMAIN m.ew_walls
    /\ \A c \in DOMAIN m.ns_walls :
        /\ DOMAIN m2.ns_walls[c] = DOMAIN m.ns_walls[c]
        /\ \A r \in DOMAIN m.ns_walls[c] :
            m2.ns_walls[c][r] = IF w = <<"NS", r, c>> THEN FALSE
                                ELSE m.ns_walls[c][r]
    /\ \A r \in DOMAIN m.ew_walls :
        /\ DOMAIN m2.ew_walls[r] = DOMAIN m.ew_walls[r]
        /\ \A c \in DOMAIN m.ew_walls[r] :
            m2.ew_walls[r][c] = IF w = <<"EW", r, c>> THEN FALSE
                                ELSE m.ew_walls[r][c]

C19_RemoveWallFrame ==
    [][\A w \in RealWalls(maze) :
         (pc = "walls" /\ maze' = remove_wall(maze, w[1], w[2], w[3])) =>
            /\ FlagCleared(maze, maze', w)
            /\ remove_wall(maze', w[1], w[2], w[3]) = maze']_vars

\* Removals have opened an interior wall of a maze with an exit and left
\* another interior wall and a boundary wall standing
C19_Witness ==
    /\ pc = "walls"
    /\ maze.exits /= <<>>
    /\ \E w \in InteriorWalls(maze) : WallOpen(maze, w)
    /\ \E w \in InteriorWalls(maze) : ~WallOpen(maze, w)
    /\ \E w \in BoundaryWalls(maze) : ~WallOpen(maze, w)
    /\ maze /= Maze(args.rows, args.cols, args.exits)

(***************************************************************************)
(* C20: solid(x, y) on the text canvas.  For 0 <= x <= 2*cols and          *)
(* 0 <= y <= 2*rows it is true where x and y are even, false where both    *)
(* are odd, the flag of the north-south wall at row y/2 and column border  *)
(* x/2 where x is even and y odd, the flag of the east-west wall at row    *)
(* border y/2 and column x/2 where y is even and x odd; elsewhere it is    *)
(* false.  The point string_output_location gives for an exit is not       *)
(* solid.                                                                  *)
(***************************************************************************)
Even(n) == n % 2 = 0

Closer(a, b, tolerance) == length_squared(CoordSub(a, b)) < tolerance * tolerance

C21_PathNormalForm ==
    pc = "path" =>
        LET c == outcome.coords IN
        /\ \A k \in 1..(Len(c) - 1) : ~Closer(c[k], c[k + 1], outcome.tolerance)
        /\ Len(c) >= 2 => ~Closer(c[Len(c)], c[1], outcome.tolerance)

(***************************************************************************)
(* C22: with spawn probability 0 the generator is one worker carving depth *)
(* first.  The worker list stays at the one initial worker, spawn is never *)
(* called, and a turn that removes a wall removes one wall: the wall       *)
(* between the cell on top of the worker's path stack, once its dead ends  *)
(* are popped, and a neighbour not visited before, which is pushed on the  *)
(* stack and added to visited.                                             *)
(***************************************************************************)
\* The direction from cell c to its neighbour n
DirectionTo(c, n) == CHOOSE d \in DirectionSet : neighbor(c, d) = n

C22_SingleAgentCarving ==
    [][(pc = "run_all" /\ workers[1].spawn_probability = 0) =>
        /\ Len(workers) = 1 /\ Len(workers') = 1
        /\ calls.spawn = 0 /\ calls'.spawn = 0
        /\ maze' /= maze =>
            LET path == workers[1].path
                path2 == workers'[1].path
                L == Len(path2) IN
            /\ L >= 2 /\ L - 1 <= Len(path)
            /\ SubSeq(path2, 1, L - 1) = SubSeq(path, 1, L - 1)
            /\ workers'[1].current_cell = path2[L]
            /\ path2[L] \in {neighbor(path2[L - 1], d) : d \in DirectionSet}
            /\ path2[L] \notin visited
            /\ visited' = visited \cup {path2[L]}
            /\ LET wall == convert_wall_coordinates(
                              path2[L - 1], DirectionTo(path2[L - 1], path2[L])) IN
               /\ wall \in InteriorWalls(maze)
               /\ ~WallOpen(maze, wall)
               /\ FlagCleared(maze, maze', wall)]_vars

\* The end of a generation with spawn probability 0 on six cells, in which
\* the worker went back to a cell and carved a second way out of it
C22_Witness ==
    /\ pc = "generated"
    /\ workers[1].spawn_probability = 0
    /\ maze.rows * maze.cols = 6
    /\ Cardinality(CarvedWalls(maze)) = 5
    /\ \E cell \in MazeCells(maze) :
        Cardinality({e \in OpenEdges(maze) : e[1] = cell}) >= 3

(***************************************************************************)
(* C23: num_walls is the number of wall segments of the maze that are      *)
(* present, boundary and interior; for a maze without exits and with no    *)
(* wall removed that is rows * (cols + 1) + cols * (rows + 1).             *)
(***************************************************************************)
C23_NumWallsCountsSegments ==
    pc = "num_walls" =>
        /\ outcome = Cardinality({w \in RealWalls(maze) : ~WallOpen(maze, w)})
        /\ maze = Maze(maze.rows, maze.cols, <<>>) =>
            outcome = maze.rows * (maze.cols + 1) + maze.cols * (maze.rows + 1)

(***************************************************************************)
(* C24: the algorithms attempt no invalid move.  In no state of a          *)
(* generator run from a cell of the grid, and in no state of a solver run, *)
(* has a move or a spawn of the algorithm's own step raised the            *)
(* "Cannot move" ValueError; a spawning turn's spawn and move both pass.   *)
(***************************************************************************)
C24_NoInvalidMove ==
    /\ pc /= "raised"
    /\ outcome \notin {"ValueError: Cannot move that direction.",
                       "ValueError: Cannot move in that direction."}
    /\ pc = "run_all" => Len(workers) = calls.spawn + 1

\* A solver has returned after backtracking, in a maze carved by a generator
\* with a spawning turn
C24_Witness ==
    /\ pc = "returned"
    /\ calls.spawn >= 1
    /\ Len(workers) >= 2
    /\ Cardinality(visited) = maze.rows * maze.cols
    /\ Len(solver.visited) > Len(solver.path)

(***************************************************************************)
(* C25: in every state between two worker turns of a generation begun by   *)
(* one worker on a maze with no interior wall open, the open walls between *)
(* cells form a tree on exactly the visited cells: the visited cells hang  *)
(* together through open walls, no open wall lies on a cycle or leads to a *)
(* cell not visited, and the open interior walls number |visited| - 1.  A  *)
(* turn opens a wall only between a cell visited before the turn and a     *)
(* cell not visited before it, which is visited after it; as many walls    *)
(* are opened as cells are visited, and no cell is added to visited twice. *)
(***************************************************************************)
\* The two cells an interior wall lies between
CellsOfWall(w) == {f[1] : f \in FacesOfWall(w)}

C25_CarvedTree ==
    /\ [](pc \in {"run_all", "generated"} =>
            LET E == OpenEdges(maze) IN
            /\ Connected(visited, E)
            /\ Acyclic(E)
            /\ Cardinality(CarvedWalls(maze)) = Cardinality(visited) - 1
            /\ calls.visit = Cardinality(visited))
    /\ [][\A w \in InteriorWalls(maze) :
            (~WallOpen(maze, w) /\ WallOpen(maze', w)) =>
                /\ Cardinality(CellsOfWall(w) \cap visited) = 1
                /\ CellsOfWall(w) \subseteq visited'
                /\ Cardinality(visited') - Cardinality(visited)
                     = Cardinality(CarvedWalls(maze')) - Cardinality(CarvedWalls(maze))]_vars

\* Between two turns of a generation on six cells: two workers alive, four
\* cells visited, two not yet
C25_Witness ==
    /\ pc = "run_all"
    /\ maze.rows * maze.cols = 6
    /\ Cardinality(visited) = 4
    /\ Cardinality({i \in 1..Len(workers) : workers[i].alive}) >= 2
    /\ Cardinality(CarvedWalls(maze)) = 3

(***************************************************************************)
(* The turns of the generation: a pass of the for loop of                  *)
(* MazeConstructor.step on a live worker that raises nothing.              *)
(***************************************************************************)
IsTurn ==
    /\ pc = "run_all" /\ pc' = "run_all"
    /\ idx <= Len(workers)
    /\ workers[idx].alive
    /\ idx' = idx + 1

\* The cell the worker of the turn stands on when its dead ends are popped
TurnCell == LET path2 == workers'[idx].path IN path2[Len(path2) - 1]

\* The neighbours of cell c in the grid that are not visited
UnvisitedAround(c) ==
    {n \in {neighbor(c, d) : d \in DirectionSet} :
        valid_cell(maze, n) /\ n \notin visited}

\* The walls of the maze between c and the cells of S were standing, and are
\* what the turn has cleared of the maze
WallsCleared(c, S) ==
    LET W == {convert_wall_coordinates(c, DirectionTo(c, n)) : n \in S} IN
    /\ \A w \in W : ~WallOpen(maze, w)
    /\ \A w \in RealWalls(maze) : WallOpen(maze', w) <=> (WallOpen(maze, w) \/ w \in W)
    /\ Cardinality(W) = Cardinality(S)
    /\ maze'.rows = maze.rows /\ maze'.cols = maze.cols /\ maze'.exits = maze.exits

\* The worker of the turn has popped some of its path and pushed cell n
Pushed(n) ==
    LET path == workers[idx].path
        path2 == workers'[idx].path
        L == Len(path2) IN
    /\ L >= 2 /\ L - 1 <= Len(path)
    /\ SubSeq(path2, 1, L - 1) = SubSeq(path, 1, L - 1)
    /\ path2[L] = n
    /\ workers'[idx].current_cell = n
    /\ workers'[idx].alive
    /\ workers'[idx].spawn_probability = workers[idx].spawn_probability
    /\ \A j \in 1..Len(workers) : j /= idx => workers'[j] = workers[j]

\* A spawning turn: two distinct unvisited neighbours, two walls, one new
\* worker, the parent moved
SpawningTurnEffect ==
    LET new == workers'[Len(workers')]
        moved == workers'[idx].current_cell IN
    /\ Len(workers') = Len(workers) + 1
    /\ Len(workers'[idx].path) >= 2
    /\ Cardinality(UnvisitedAround(TurnCell)) >= 2
    /\ new = MazeWorker(new.current_cell, workers[idx].spawn_probability)
    /\ new.path = <<new.current_cell>> /\ new.alive
    /\ new.current_cell /= moved
    /\ {new.current_cell, moved} \subseteq UnvisitedAround(TurnCell)
    /\ visited' = visited \cup {new.current_cell, moved}
    /\ calls'.visit = calls.visit + 2
    /\ WallsCleared(TurnCell, {new.current_cell, moved})
    /\ Pushed(moved)

\* A turn of one move: one wall, one new cell
MovingTurnEffect ==
    LET moved == workers'[idx].current_cell IN
    /\ Len(workers') = Len(workers)
    /\ Len(workers'[idx].path) >= 2
    /\ moved \in UnvisitedAround(TurnCell)
    /\ visited' = visited \cup {moved}
    /\ calls'.visit = calls.visit + 1
    /\ WallsCleared(TurnCell, {moved})
    /\ Pushed(moved)

\* A turn in which the worker retires: no wall, no cell
RetiringTurnEffect ==
    /\ maze' = maze
    /\ visited' = visited
    /\ calls' = calls
    /\ Len(workers') = Len(workers)
    /\ workers'[idx].path = <<>>
    /\ \A j \in 1..Len(workers) : j /= idx => workers'[j] = workers[j]

(***************************************************************************)
(* C26: a spawning turn is taken only at a cell with two unvisited         *)
(* neighbours or more; it picks two distinct ones, removes exactly the two *)
(* walls between the cell and them, adds exactly those two cells to        *)
(* visited, appends exactly one new live worker whose path is [spawn cell] *)
(* and whose spawn probability is the parent's, and moves the parent into  *)
(* the other cell, pushed on its path.  A turn without a spawn in which    *)
(* the worker stays alive removes exactly one wall and visits exactly one  *)
(* new cell; a turn in which the worker retires removes no wall and visits *)
(* no cell.  As first stated, with one wall and one cell for every turn    *)
(* without a spawn, the property is C26_EveryTurnCarves.                   *)
(***************************************************************************)
C26_TurnEffects ==
    [][IsTurn =>
        IF calls'.spawn /= calls.spawn
        THEN calls'.spawn = calls.spawn + 1 /\ SpawningTurnEffect
        ELSE IF workers'[idx].alive THEN MovingTurnEffect
        ELSE RetiringTurnEffect]_vars

C26_EveryTurnCarves ==
    [][IsTurn =>
        IF calls'.spawn /= calls.spawn
        THEN calls'.spawn = calls.spawn + 1 /\ SpawningTurnEffect
        ELSE MovingTurnEffect]_vars

\* A generation on six cells between two turns, after a spawning turn and
\* the retirement of a worker, with a worker alive and a cell to visit
C26_Witness ==
    /\ pc = "run_all"
    /\ maze.rows * maze.cols = 6
    /\ calls.spawn >= 1
    /\ \E i \in 1..Len(workers) : ~workers[i].alive
    /\ \E i \in 1..Len(workers) : workers[i].alive
    /\ Cardinality(visited) < 6

(***************************************************************************)
(* C27: worker retirement.  A worker that is not alive has an empty path;  *)
(* a worker stops being alive only in its own turn, by backtracking; every *)
(* cell a turn pops off a path has no unvisited neighbour then.            *)
(* Retirement is permanent: a worker that is not alive is never changed    *)
(* again, and the pass of the for loop over it changes neither the maze,   *)
(* the visited set nor the worker list.                                    *)
(***************************************************************************)
\* The cells the step has popped off the path of worker i
PoppedCells(i) ==
    LET path == workers[i].path
        path2 == workers'[i].path
        kept == {k \in 1..Len(path) : k <= Len(path2) /\ path2[k] = path[k]
                                       /\ (k < Len(path2) \/ Len(path2) = Len(path))}
    IN {path[k] : k \in (1..Len(path)) \ kept}

C27_Retirement ==
    /\ [](pc \in {"run_all", "generated"} =>
            \A i \in 1..Len(workers) : ~workers[i].alive => workers[i].path = <<>>)
    /\ [][pc = "run_all" =>
            \A i \in 1..Len(workers) :
                /\ (workers[i].alive /\ ~workers'[i].alive) =>
                        /\ i = idx
                        /\ workers'[i].path = <<>>
                        /\ PoppedCells(i) = SeqRange(workers[i].path)
                        /\ maze' = maze /\ visited' = visited
                /\ workers[i].alive =>
                        \A c \in PoppedCells(i) : UnvisitedAround(c) = {}
                /\ ~workers[i].alive =>
                        /\ workers'[i] = workers[i]
                        /\ i = idx =>
                            /\ maze' = maze /\ visited' = visited
                            /\ workers' = workers /\ calls' = calls]_vars

\* The for loop has passed over a retired worker while another worker is
\* alive and cells of the grid are still to visit
C27_Witness ==
    /\ pc = "run_all"
    /\ \E i \in 1..Len(workers) :
        /\ i < idx
        /\ ~workers[i].alive
        /\ Cardinality(visited) > 1
    /\ \E j \in 1..Len(workers) : workers[j].alive
    /\ Cardinality(visited) < maze.rows * maze.cols

(***************************************************************************)
(* The steps of a solver run.                                              *)
(***************************************************************************)
\* A step() of the run has moved the solver: its path is one cell longer
SolverMoved ==
    /\ pc = "run"
    /\ solver' /= solver
    /\ Len(solver'.path) = Len(solver.path) + 1

\* A step() of the run has backtracked and the path is not empty
SolverBacktracked ==
    /\ pc = "run"
    /\ solver' /= solver
    /\ Len(solver'.path) = Len(solver.path) - 1
    /\ solver'.path /= <<>>

Clockwise ==
    [d \in DirectionSet |->
        CASE d = "north" -> "east" [] d = "east" -> "south"
          [] d = "south" -> "west" [] d = "west" -> "north"]

\* The four directions clockwise from direction facing
ClockwiseFrom(facing) ==
    <<facing, Clockwise[facing], Clockwise[Clockwise[facing]],
      Clockwise[Clockwise[Clockwise[facing]]]>>

\* From cell pos the wall in direction d is open and the cell behind it is a
\* cell of the grid the solver has not visited
OpenUnvisited(pos, d) ==
    /\ WallOpen(maze, convert_wall_coordinates(pos, d))
    /\ neighbor(pos, d) \in MazeCells(maze)
    /\ neighbor(pos, d) \notin SeqRange(solver.visited)

(***************************************************************************)
(* C28: solver tie-break.  Whenever step() moves, it moves into the first  *)
(* direction, clockwise from the facing (north, east, south, west, north), *)
(* whose wall is open and whose neighbour is in the grid and unvisited,    *)
(* and the facing becomes the direction moved.                             *)
(***************************************************************************)
C28_ClockwiseTieBreak ==
    [][SolverMoved =>
        LET pos == solver.current_position
            order == ClockwiseFrom(solver.orientation) IN
        /\ \E k \in 1..4 : OpenUnvisited(pos, order[k])
        /\ LET first == CHOOSE k \in 1..4 :
                            /\ OpenUnvisited(pos, order[k])
                            /\ \A j \in 1..(k - 1) : ~OpenUnvisited(pos, order[j])
           IN /\ solver'.current_position = neighbor(pos, order[first])
              /\ solver'.orientation = order[first]
              /\ solver'.path = Append(solver.path, neighbor(pos, order[first]))
              /\ solver'.visited = Append(solver.visited, neighbor(pos, order[first]))]_vars

\* The solver has just moved from a cell that has another open wall to a
\* cell not visited: the move was one of two candidates or more
C28_Witness ==
    /\ pc = "run"
    /\ Len(solver.path) >= 2
    /\ solver.visited[Len(solver.visited)] = solver.current_position
    /\ LET from == solver.path[Len(solver.path) - 1] IN
       \E d \in DirectionSet : OpenUnvisited(from, d)

(***************************************************************************)
(* C29: solver backtrack facing.  Whenever backtrack pops a cell and the   *)
(* path stays non-empty, the new facing is the reverse of the move by      *)
(* which the popped cell was entered, also when several backtracks follow  *)
(* one another; the solver stands on the new top of the path.              *)
(***************************************************************************)
C29_BacktrackFacing ==
    [][SolverBacktracked =>
        LET path == solver.path
            L == Len(path)
            entered == DirectionTo(path[L - 1], path[L]) IN
        /\ solver'.path = SubSeq(path, 1, L - 1)
        /\ solver'.current_position = path[L - 1]
        /\ solver'.orientation = Clockwise[Clockwise[entered]]]_vars

(***************************************************************************)
(* C30: the solver never crosses walls or leaves the grid.  In every state *)
(* of a run started from a valid cell, whatever walls were removed before  *)
(* (boundary walls and exits included), every position of path and of      *)
(* visited is a cell of the grid, and two consecutive positions of path    *)
(* are grid neighbours whose common wall is open, seen from either cell.   *)
(***************************************************************************)
OpenBetween(a, b) ==
    \E d \in DirectionSet :
        /\ neighbor(a, d) = b
        /\ neighbor(b, Clockwise[Clockwise[d]]) = a
        /\ ~cell_walls(maze, a)[d]
        /\ ~cell_walls(maze, b)[Clockwise[Clockwise[d]]]

C30_NeverCrossesWalls ==
    solver /= NoObject =>
        /\ SeqRange(solver.path) \subseteq MazeCells(maze)
        /\ SeqRange(solver.visited) \subseteq MazeCells(maze)
        /\ \A k \in 1..(Len(solver.path) - 1) :
               OpenBetween(solver.path[k], solver.path[k + 1])

\* The solver has walked two moves, past a cell with an opening out of the grid
C30_Witness ==
    /\ pc = "run"
    /\ solver /= NoObject
    /\ Len(solver.path) >= 3
    /\ \E k \in 1..(Len(solver.path) - 1) : \E d \in DirectionSet :
        /\ ~cell_walls(maze, solver.path[k])[d]
        /\ ~valid_cell(maze, neighbor(solver.path[k], d))

(***************************************************************************)
(* C31: solver state invariants.  While the solver is active its current   *)
(* position is the top of the path; the path holds no position twice and   *)
(* only visited positions; no step() call shortens or changes what visited *)
(* already holds; completed and "not active" are never both true; a step() *)
(* call on a completed solver, or on one that is not active, changes no    *)
(* part of the solver.                                                     *)
(***************************************************************************)
IsPrefix(a, b) == Len(a) <= Len(b) /\ SubSeq(b, 1, Len(a)) = a

NoRepeat(seq) == \A j, k \in 1..Len(seq) : seq[j] = seq[k] => j = k

SolverStateInvariant ==
    solver /= NoObject =>
        /\ solver.active =>
            /\ solver.path /= <<>>
            /\ solver.current_position = solver.path[Len(solver.path)]
        /\ NoRepeat(solver.path)
        /\ SeqRange(solver.path) \subseteq SeqRange(solver.visited)
        /\ ~(solver.completed /\ ~solver.active)

SolverStepInvariant ==
    (solver /= NoObject /\ calls'.step = calls.step + 1) =>
        /\ IsPrefix(solver.visited, solver'.visited)
        /\ (solver.completed \/ ~solver.active) => solver' = solver

C31_SolverInvariants == []SolverStateInvariant /\ [][SolverStepInvariant]_vars

\* step() has been called on a solver that had completed after a backtrack
C31_Witness ==
    /\ solver /= NoObject
    /\ solver.completed
    /\ Len(solver.visited) > Len(solver.path)
    /\ calls.step > 2 * Len(solver.visited) - Len(solver.path)

\* step() has been called on a solver that had given up
C31_WitnessInactive ==
    /\ solver /= NoObject
    /\ ~solver.active
    /\ calls.step > 2 * Len(solver.visited)

(***************************************************************************)
(* C32: every extracted component is a closed cycle through its first      *)
(* face.  When the inner loop of the extraction stops, the face next_wall  *)
(* returned is the first face of the current component, never a later one; *)
(* and next_wall of the last face of every collected component is the      *)
(* component's first face.                                                 *)
(***************************************************************************)
InnerLoopStops == pc = "inner" /\ pc' = "outer"

ComponentsClosed ==
    tracker /= NoObject =>
        \A k \in 1..Len(tracker.wall_components) :
            LET c == tracker.wall_components[k] IN
            /\ c /= <<>>
            /\ ~next_wall_raises(tracker, c[Len(c)])
            /\ next_wall(tracker, c[Len(c)]) = c[1]

C32_ComponentsReturnToStart ==
    /\ []ComponentsClosed
    /\ [][InnerLoopStops =>
            /\ tracker'.w = tracker.current_component[1]
            /\ tracker'.w = next_wall(tracker, tracker.w)]_vars

\* Two components of several faces each have been closed on a maze with an
\* open wall
C32_Witness ==
    /\ tracker /= NoObject
    /\ Len(tracker.wall_components) >= 2
    /\ \A k \in 1..2 : Len(tracker.wall_components[k]) >= 4
    /\ \E w \in RealWalls(maze) : WallOpen(maze, w)

(***************************************************************************)
(* C33: the rotation rule is total and injective.  On every maze built by  *)
(* Maze(rows, cols, exits) with exits in range and changed by removals of  *)
(* real walls, next_wall finds, for every face present in the wall_dict    *)
(* (faces seen from the cells of the grid and faces seen from the          *)
(* positions around it), a candidate among the four and does not raise     *)
(* "No next wall found."; and no two present faces have the same next      *)
(* wall (the next walls of the faces are as many as the faces).  The wall  *)
(* dict is fixed once the tracker is built; it is looked at whenever the   *)
(* extraction is between two components.                                   *)
(***************************************************************************)
DictFaces(t) ==
    {f \in (DOMAIN t.wall_dict) \X DirectionSet : t.wall_dict[f[1]][f[2]]}

C33_NextWallTotalInjective ==
    (tracker /= NoObject /\ pc = "outer") =>
        LET faces == DictFaces(tracker)
            nw == [f \in faces |->
                     IF next_wall_raises(tracker, f) THEN NoObject
                     ELSE next_wall(tracker, f)] IN
        /\ faces = PresentFaces(maze)
        /\ \A f \in faces :
            /\ nw[f] \in faces
            /\ \E k \in 1..4 : nw[f] = possible_next_walls(f)[k]
        /\ Cardinality({nw[f] : f \in faces}) = Cardinality(faces)

\* next_wall has been applied along a whole component on a maze with an
\* open interior wall and an open boundary wall, both kinds of faces present
C33_Witness ==
    /\ pc = "outer"
    /\ Len(tracker.wall_components) >= 1
    /\ Len(tracker.wall_components[1]) >= 4
    /\ \E w \in InteriorWalls(maze) : WallOpen(maze, w)
    /\ \E w \in BoundaryWalls(maze) : WallOpen(maze, w)
    /\ \E f \in DictFaces(tracker) : f[1] \in MazeCells(maze)
    /\ \E f \in DictFaces(tracker) : f[1] \notin MazeCells(maze)

(***************************************************************************)
(* C34: signed-area classification.  For a generated maze without exits,   *)
(* drawn with integer cell size, offset and wall thickness,                *)
(* 0 < 2 * thickness < cell size: the component made of the exterior faces *)
(* of the boundary walls has a negative polygon_signed_area, is filled     *)
(* with the wall colour and is the first polygon of walls_SVG; every       *)
(* component made of faces seen from the cells of the grid has a           *)
(* non-negative signed area, is filled with the cell colour and comes      *)
(* after it.                                                               *)
(***************************************************************************)
IsExterior(component) == \A k \in 1..Len(component) : component[k][1] \notin MazeCells(maze)

IsInterior(component) == \A k \in 1..Len(component) : component[k][1] \in MazeCells(maze)

C34_SignedAreaClassification ==
    (pc \in {"walls_SVG", "raised"} /\ args.exits = <<>> /\ svgdata /= <<>>) =>
        /\ pc = "walls_SVG"
        /\ LET components == svgdata[Len(svgdata)].wall_components
               paths == DrawnPaths IN
           \A k \in 1..Len(components) :
               LET psa == polygon_signed_area(paths[k])
                   place == CHOOSE j \in 1..Len(outcome) :
                                outcome[j].points = paths[k].coords IN
               /\ \E j \in 1..Len(outcome) : outcome[j].points = paths[k].coords
               /\ outcome[place].psa = psa
               /\ IsExterior(components[k]) \/ IsInterior(components[k])
               /\ IsExterior(components[k]) =>
                    /\ psa < 0
                    /\ outcome[place].fill = "wall_color"
                    /\ place = 1
               /\ IsInterior(components[k]) =>
                    /\ psa >= 0
                    /\ outcome[place].fill = "cell_color"
                    /\ place > 1

\* walls_SVG of a generated maze of two rows and two columns without exits
C34_Witness ==
    /\ pc = "walls_SVG"
    /\ args.exits = <<>>
    /\ maze.rows >= 2 /\ maze.cols >= 2
    /\ Len(outcome) = 2
    /\ outcome[1].psa < 0 /\ outcome[2].psa > 0

(***************************************************************************)
(* C35: JSON round trip.  For every maze, square or not, and every exit    *)
(* list, json_to_maze(maze_to_json(maze)) is a maze with the same rows,    *)
(* cols and exits and with every real wall present or absent as in the     *)
(* original.                                                               *)
(***************************************************************************)
SameWalls(a, b) ==
    /\ a.rows = b.rows
    /\ a.cols = b.cols
    /\ a.exits = b.exits
    /\ \A w \in RealWalls(a) :
        retrieve_wall(a, w[1], w[2], w[3]) = retrieve_wall(b, w[1], w[2], w[3])

C35_JsonRoundTrip == pc = "imported" => SameWalls(maze, outcome)

\* The same for the mazes with as many rows as columns
C35_JsonRoundTripSquare ==
    (pc = "imported" /\ maze.rows = maze.cols) => SameWalls(maze, outcome)

C35_WitnessSquare ==
    /\ pc = "imported"
    /\ maze.rows = 2 /\ maze.cols = 2
    /\ maze.exits /= <<>>
    /\ CarvedWalls(maze) /= {}

(***************************************************************************)
(* C36: a GraphicalPath is never empty.  GraphicalPath(coords, ...) raises *)
(* ValueError for the empty sequence, and for every non-empty sequence (a  *)
(* single point, or points all within the tolerance of each other,         *)
(* included) it returns a path that holds at least one point.              *)
(***************************************************************************)
C36_PathNeverEmpty ==
    ("call" \in DOMAIN args /\ args.call = "GraphicalPath") =>
        IF args.coords = <<>>
        THEN pc = "raised" /\ outcome = "ValueError: Argument must be non-empty."
        ELSE pc = "path" /\ Len(outcome.coords) >= 1

(***************************************************************************)
(* C37: several initial workers.  When the constructor is started with     *)
(* k >= 1 workers at k distinct cells of a fresh maze, run_all ends with   *)
(* every cell visited and the open interior walls forming a spanning       *)
(* forest of exactly k trees: no open wall lies on a cycle, every cell is  *)
(* joined through open walls to exactly one initial cell, and              *)
(* rows * cols - k walls are carved.  The cells are all joined together    *)
(* only for k = 1.                                                         *)
(***************************************************************************)
C37_SpanningForest ==
    pc = "generated" =>
        LET E == OpenEdges(maze)
            k == Len(args.initial_cells)
            initial == SeqRange(args.initial_cells) IN
        /\ visited = MazeCells(maze)
        /\ Acyclic(E)
        /\ Cardinality(CarvedWalls(maze)) = maze.rows * maze.cols - k
        /\ \A c \in MazeCells(maze) :
               Cardinality(ReachFrom({c}, E) \cap initial) = 1
        /\ Connected(MazeCells(maze), E) <=> k = 1

\* A generation by two initial workers on the 2x2 grid has ended, a worker
\* having been spawned on the way
C37_Witness ==
    /\ pc = "generated"
    /\ "initial_cells" \in DOMAIN args
    /\ Len(args.initial_cells) = 2
    /\ maze.rows = 2 /\ maze.cols = 2
    /\ Len(workers) > 2


(***************************************************************************)
(* C38.  The number of contour components.  For every generated perfect    *)
(* maze without exits the extraction yields exactly two components: one    *)
(* holds all 2*(rows+cols) faces of the boundary walls seen from outside   *)
(* the grid, the other all the faces seen from the cells of the grid, and  *)
(* no face is held twice.  For the 1x2 maze, whose single interior wall is *)
(* removed, these are two closed loops of six faces each.                  *)
(***************************************************************************)
ExteriorFaces(m) == {f \in PresentFaces(m) : f[1] \notin MazeCells(m)}

InsideFaces(m) == {f \in PresentFaces(m) : f[1] \in MazeCells(m)}

C38_TwoComponents ==
    (pc = "extracted" /\ args.exits = <<>>) =>
        LET comps == tracker.wall_components IN
        /\ Len(comps) = 2
        /\ \A k \in 1..2 : NoRepeats(comps[k])
        /\ Cardinality(ExteriorFaces(maze)) = 2 * (maze.rows + maze.cols)
        /\ {SeqRange(comps[k]) : k \in 1..2}
               = {ExteriorFaces(maze), InsideFaces(maze)}
        /\ (maze.rows = 1 /\ maze.cols = 2) =>
               /\ CarvedWalls(maze) = InteriorWalls(maze)
               /\ \A k \in 1..2 :
                      /\ Len(comps[k]) = 6
                      /\ next_wall(tracker, comps[k][6]) = comps[k][1]

\* The extraction of a generated 2x3 maze without exits has ended, and so
\* has the one of the 1x2 maze
C38_Witness ==
    /\ pc = "extracted"
    /\ args.exits = <<>>
    /\ maze.rows = 2 /\ maze.cols = 3
    /\ Len(tracker.wall_components) = 2
    /\ Len(tracker.wall_components[1]) + Len(tracker.wall_components[2]) = 24

C38_WitnessOneByTwo ==
    /\ pc = "extracted"
    /\ args.exits = <<>>
    /\ maze.rows = 1 /\ maze.cols = 2
    /\ Len(tracker.wall_components) = 2


(***************************************************************************)
(* C39.  Navigation errors leave the state unchanged.  A direct call of    *)
(* MazeWorker.move or MazeWorker.spawn in a direction whose neighbour is   *)
(* out of bounds or already visited, and a direct call of MazeSolver.move  *)
(* in a direction that is walled, out of bounds or already visited,        *)
(* raises ValueError and changes nothing: no wall is removed, and the      *)
(* visited set, the paths, the current cells, the worker list and the      *)
(* facing are as before.                                                   *)
(***************************************************************************)
NavigationErrors ==
    {"ValueError: Cannot move that direction.",
     "ValueError: Cannot move in that direction."}

\* The direction d is barred for worker i, and for the solver
WorkerBarred(i, d) ==
    LET nb == neighbor(workers[i].current_cell, d) IN
    nb \notin MazeCells(maze) \/ nb \in visited

SolverBarred(d) ==
    LET nb == neighbor(solver.current_position, d) IN
    \/ ~WallOpen(maze, convert_wall_coordinates(solver.current_position, d))
    \/ nb \notin MazeCells(maze)
    \/ nb \in SeqRange(solver.visited)

\* The same constructor: its maze, its workers and its visited set
SameGenerator(g) ==
    g.maze = maze /\ g.workers = workers /\ g.visited = visited

\* Every call in a barred direction raises, and leaves the constructor as
\* it was
BarredCallsRaise ==
    pc = "direct" =>
        /\ \A i \in 1..Len(workers) : \A d \in DirectionSet :
               WorkerBarred(i, d) =>
                   /\ move(G, i, d).raised /\ SameGenerator(move(G, i, d))
                   /\ spawn(G, i, d).raised /\ SameGenerator(spawn(G, i, d))
        /\ solver /= NoObject =>
               \A d \in DirectionSet :
                   SolverBarred(d) => solver_move_raises(maze, solver, d)

\* A call that has raised has changed nothing
RaisedCallChangesNothing ==
    (pc = "direct" /\ outcome' \in NavigationErrors) =>
        UNCHANGED <<maze, visited, workers, solver>>

C39_NavigationErrorsChangeNothing ==
    []BarredCallsRaise /\ [][RaisedCallChangesNothing]_vars

\* A barred call has just raised, after a spawn, a move of a worker and a
\* move of the solver had succeeded
C39_Witness ==
    /\ pc = "direct"
    /\ outcome \in NavigationErrors
    /\ Len(workers) >= 2
    /\ \E i \in 1..Len(workers) : Len(workers[i].path) >= 2
    /\ solver /= NoObject
    /\ Len(solver.path) >= 2

====
